---------------------------- MODULE Spec2Model ----------------------------
(***************************************************************************)
(* Model of the job-processing core of coretex-incident-enricher:          *)
(*   - the poster worker's handler (cmd/poster, listed in first-pack.md),  *)
(*     with its idempotency cache, webhook sink, artifact store and        *)
(*     result-pointer store;                                               *)
(*   - truncateToBytes (cmd/summarizer and internal/llm);                  *)
(*   - collectEvidenceText (cmd/summarizer);                               *)
(*   - Summarize and its backends (internal/llm);                          *)
(*   - the summarizer worker's handler (cmd/summarizer).                   *)
(***************************************************************************)
EXTENDS Integers, Sequences, FiniteSets, TLC

(***************************************************************************)
(* Bounds                                                                  *)
(***************************************************************************)
\* total number of poster invocations started in one behaviour
MaxInvocations == 2
\* number of times a cache entry's TTL may elapse in one behaviour
MaxExpiries == 1
\* longest string handed to truncateToBytes, in bytes
MaxLen == 4
\* largest byte budget handed to truncateToBytes
MaxBudget == 5
\* largest number of evidence items in a bundle
MaxBundle == 3
\* largest configured LLM_MAX_EVIDENCE_ITEMS
MaxItemsBudget == 2
\* largest configured LLM_MAX_EVIDENCE_BYTES
MaxBytesBudget == 6

(***************************************************************************)
(* Poster: inputs                                                          *)
(***************************************************************************)
Workers == {1, 2}

\* two ids that differ only by surrounding blanks: the handler trims the id
\* for its entry check only
IncidentIDs == {"INC-1", " INC-1 "}
RawIncidentIDs == IncidentIDs \cup {"", "  "}
RawModes == {"", "  ", "slack", " Slack ", "artifact", "email"}
RawWebhooks ==
  {"", "  ", " https://hooks.slack.com/T1 ", "https://evil.example/T2"}
DefaultWebhooks == {"", "https://hooks.slack.com/T0"}
AllowedHosts == {"hooks.slack.com"}

\* strings.TrimSpace on the strings the model uses
TrimSpace(s) ==
  CASE s = "  " -> ""
    [] s = " INC-1 " -> "INC-1"
    [] s = " Slack " -> "Slack"
    [] s = " Mock " -> "Mock"
    [] s = " None " -> "None"
    [] s = " Strict " -> "Strict"
    [] s = " llama3 " -> "llama3"
    [] s = " https://hooks.slack.com/T1 " -> "https://hooks.slack.com/T1"
    [] OTHER -> s

\* strings.ToLower on the strings the model uses
ToLower(s) ==
  CASE s = "Slack" -> "slack"
    [] s = "Mock" -> "mock"
    [] s = "None" -> "none"
    [] s = "Strict" -> "strict"
    [] s = "Application/JSON" -> "application/json"
    [] OTHER -> s

\* host component of a webhook URL
Host(url) ==
  CASE url = "https://hooks.slack.com/T1" -> "hooks.slack.com"
    [] url = "https://hooks.slack.com/T0" -> "hooks.slack.com"
    [] url = "https://evil.example/T2" -> "evil.example"
    [] OTHER -> ""

\* policyconstraints.HostAllowed: the URL's host is in allowed_hosts
HostAllowed(hosts, url) == Host(url) \in hosts

\* the posterInput values a job may carry.  The webhook override is read
\* only in slack mode, so the other modes are paired with an empty override;
\* jobs with a blank incident_id end at the entry check, so one destination
\* is enough for them.
Jobs ==
  {j \in [incident_id : RawIncidentIDs, mode : RawModes,
          slack_webhook_url : RawWebhooks] :
     /\ j.mode \in {"", "  ", "artifact", "email"} => j.slack_webhook_url = ""
     /\ j.mode = " Slack " => TrimSpace(j.slack_webhook_url) # ""
     /\ j.incident_id \notin IncidentIDs =>
          j.mode = "slack" /\ TrimSpace(j.slack_webhook_url) # ""}

NoJob == [incident_id |-> "", mode |-> "", slack_webhook_url |-> ""]

\* a key built from the trimmed id
cacheKey_Trimmed(id) == <<"incident-enricher:posted:", TrimSpace(id)>>

\* "incident-enricher:posted:" + incident_id
cacheKey(id) == <<"incident-enricher:posted:", id>>

(***************************************************************************)
(* Poster: PostResult and its JSON form                                    *)
(***************************************************************************)
NoSlack == [ok |-> FALSE]

\* types.PostResult{}
ZeroPostResult ==
  [incident_id |-> "", mode |-> "", slack |-> NoSlack,
   artifact_ptr |-> 0, posted_at |-> 0]

\* json.Marshal(types.PostResult): optional fields are left out when empty
MarshalPostResult(r) ==
  LET present == {"incident_id", "mode", "posted_at"}
                   \cup (IF r.slack = NoSlack THEN {} ELSE {"slack"})
                   \cup (IF r.artifact_ptr = 0 THEN {} ELSE {"artifact_ptr"})
  IN [k \in present |-> r[k]]

\* json.Unmarshal into a zero types.PostResult
UnmarshalPostResult(obj) ==
  [k \in DOMAIN ZeroPostResult |->
     IF k \in DOMAIN obj THEN obj[k] ELSE ZeroPostResult[k]]

(***************************************************************************)
(* Byte strings and truncateToBytes                                        *)
(***************************************************************************)
\* The bytes strings are built from: 'A', and the bytes of U+00E9 (C3 A9),
\* U+20AC (E2 82 AC) and of a four-byte sequence (F0 A9 82 AC).  A Go string
\* is any byte sequence, valid UTF-8 or not.
Bytes == {65, 195, 169, 226, 130, 172, 240}

RECURSIVE SeqsUpTo(_, _)
SeqsUpTo(S, n) ==
  IF n = 0 THEN {<<>>}
  ELSE LET shorter == SeqsUpTo(S, n - 1)
       IN shorter \cup {Append(q, b) : q \in shorter, b \in S}

Strings == SeqsUpTo(Bytes, MaxLen)

IsCont(b) == b >= 128 /\ b <= 191

\* utf8.ValidString, from position i on
RECURSIVE ValidFrom(_, _)
ValidFrom(s, i) ==
  IF i > Len(s) THEN TRUE
  ELSE LET b == s[i]
       IN CASE b < 128 -> ValidFrom(s, i + 1)
            [] b >= 194 /\ b <= 223 ->
                 /\ i + 1 <= Len(s)
                 /\ IsCont(s[i + 1])
                 /\ ValidFrom(s, i + 2)
            [] b >= 224 /\ b <= 239 ->
                 /\ i + 2 <= Len(s)
                 /\ s[i + 1] >= (IF b = 224 THEN 160 ELSE 128)
                 /\ s[i + 1] <= (IF b = 237 THEN 159 ELSE 191)
                 /\ IsCont(s[i + 2])
                 /\ ValidFrom(s, i + 3)
            [] b >= 240 /\ b <= 244 ->
                 /\ i + 3 <= Len(s)
                 /\ s[i + 1] >= (IF b = 240 THEN 144 ELSE 128)
                 /\ s[i + 1] <= (IF b = 244 THEN 143 ELSE 191)
                 /\ IsCont(s[i + 2])
                 /\ IsCont(s[i + 3])
                 /\ ValidFrom(s, i + 4)
            [] OTHER -> FALSE

ValidString(s) == ValidFrom(s, 1)

\* for len(truncated) > 0 && !utf8.ValidString(truncated) { drop a byte }
RECURSIVE DropWhileInvalid(_)
DropWhileInvalid(truncated) ==
  IF Len(truncated) > 0 /\ ~ValidString(truncated)
    THEN DropWhileInvalid(SubSeq(truncated, 1, Len(truncated) - 1))
    ELSE truncated

\* truncateToBytes that cuts at the budget without looking at the text
truncateToBytes_CutsAnywhere(value, maxBytes) ==
  IF maxBytes <= 0 \/ Len(value) <= maxBytes
    THEN value
    ELSE SubSeq(value, 1, maxBytes)

\* truncateToBytes that gives up on a cut inside a character
truncateToBytes_EmptyOnBadCut(value, maxBytes) ==
  IF maxBytes <= 0 \/ Len(value) <= maxBytes
    THEN value
    ELSE IF ValidString(SubSeq(value, 1, maxBytes))
           THEN SubSeq(value, 1, maxBytes)
           ELSE <<>>

\* truncateToBytes of the summarizer worker
truncateToBytes(value, maxBytes) ==
  IF maxBytes <= 0 \/ Len(value) <= maxBytes
    THEN value
    ELSE DropWhileInvalid(SubSeq(value, 1, maxBytes))

(***************************************************************************)
(* State                                                                   *)
(***************************************************************************)
VARIABLES
  cfg,        \* process configuration (config.Env): SlackWebhookURL
  inv,        \* per worker: the handler invocation in flight
  cache,      \* idempotency cache (redis): key -> JSON object
  artifacts,  \* artifact store: sequence of uploads, pointer = index
  results,    \* result-pointer store: job (by incident) -> PostResult
  posted,     \* webhook sink: successful POSTs per incident
  expiries,   \* number of TTL expiries of an incident's cache entry
  okInv,      \* per incident: first successful invocation since expiry
  started,    \* number of invocations started
  now,        \* wall clock (time.Now), in seconds
  trunc,      \* a call of truncateToBytes: arguments and returned value
  sum,        \* the summarizer's collectEvidenceText: arguments and locals
  llm,        \* a call of llm.Summarize: arguments, round trip and result
  sjob,       \* the summarizer handler's invocation in flight
  fn,         \* a call of a pure function: name, arguments, returned value
  sched       \* the scheduler's retrying of one post job

posterVars == <<cfg, inv, cache, artifacts, results, posted, expiries, okInv,
                started, now>>

\* the state the poster never touches
nonPosterVars == <<trunc, sum, llm, sjob, fn, sched>>

vars == <<posterVars, nonPosterVars>>

Idle ==
  [pc |-> "idle", job |-> NoJob, status |-> "none", hit |-> FALSE,
   mode |-> "", webhook |-> "", checked |-> "", postedTo |-> "",
   result |-> ZeroPostResult,
   nWebhook |-> 0, nUpload |-> 0, nCacheSet |-> 0, nPtr |-> 0,
   stored |-> FALSE, hitData |-> <<>>, overlap |-> FALSE, stale |-> FALSE,
   cancelled |-> "", nGet |-> 0,
   pred |-> FALSE, predResult |-> ZeroPostResult, predWebhook |-> 0]

NoOk == [set |-> FALSE, result |-> ZeroPostResult, nWebhook |-> 0]

Active(w) == inv[w].pc # "idle"

NoCall == [pc |-> "none", value |-> <<>>, maxBytes |-> 0, out |-> <<>>]

\* no pure function is being called
NoFn == [pc |-> "none", name |-> "", args |-> <<>>, out |-> <<>>]

\* no job is being retried
NoSched == [pc |-> "none", job |-> NoJob, policyOk |-> TRUE, plan |-> <<>>]

PosterStores ==
  /\ inv = [w \in Workers |-> Idle]
  /\ cache = <<>>
  /\ artifacts = <<>>
  /\ results = [i \in IncidentIDs |-> ZeroPostResult]
  /\ posted = [i \in IncidentIDs |-> 0]
  /\ expiries = [i \in IncidentIDs |-> 0]
  /\ okInv = [i \in IncidentIDs |-> NoOk]
  /\ started = 0
  /\ now = 1

(***************************************************************************)
(* Summaries (types.Summary) and calls of llm.Summarize                    *)
(***************************************************************************)
\* types.Summary{}.  Text fields are byte strings; confidence is counted in
\* tenths (0.4 is 4); artifact_ptr 0 is the empty pointer.
ZeroSummary ==
  [incident_id |-> "", summary_md |-> <<>>, highlights |-> <<>>,
   action_items |-> <<>>, confidence |-> 0, model |-> "", artifact_ptr |-> 0]

\* summaryPayload{}
ZeroPayload ==
  [summary_md |-> <<>>, highlights |-> <<>>, action_items |-> <<>>,
   confidence |-> 0]

NoParse == [ok |-> FALSE, payload |-> ZeroPayload]

\* no HTTP round trip was made
NoRoundTrip ==
  [transport |-> FALSE, decoded |-> FALSE, status |-> 0, error |-> <<>>,
   content |-> <<>>, kind |-> "none", doc |-> <<>>]

\* no call of llm.Summarize is in progress
NoLLM ==
  [pc |-> "none",
   settings |-> [Provider |-> "", OllamaModel |-> "", OllamaURL |-> ""],
   input |-> [incident_id |-> "", count |-> 0, evidence |-> <<>>],
   redactionLevel |-> "", dispatched |-> "none", requests |-> 0,
   net |-> NoRoundTrip, parsed |-> NoParse, err |-> "",
   summary |-> ZeroSummary]

\* no summarize job is being handled
NoSJob ==
  [pc |-> "none", status |-> "none", cause |-> "", cancelled |-> "",
   cfg |-> [LLMProvider |-> "", OllamaModel |-> "", OllamaURL |-> "",
            LLMMaxEvidenceItems |-> 0, LLMMaxEvidenceBytes |-> 0],
   incident_id |-> "", redaction |-> "", summary |-> ZeroSummary,
   result |-> ZeroSummary]

NoCollect ==
  [pc |-> "none", bundle |-> <<>>, maxItems |-> 0, maxBytes |-> 0,
   idx |-> 1, out |-> <<>>, total |-> 0, fetched |-> <<>>,
   failed |-> <<>>, good |-> <<>>]

PosterInit ==
  /\ cfg \in [SlackWebhookURL : DefaultWebhooks]
  /\ PosterStores
  /\ sched = NoSched
  /\ trunc = NoCall
  /\ fn = NoFn
  /\ sum = NoCollect
  /\ llm = NoLLM
  /\ sjob = NoSJob

\* no poster job is delivered: the poster part of the state stays put
PosterQuiet ==
  /\ cfg = [SlackWebhookURL |-> ""]
  /\ PosterStores
  /\ sched = NoSched

\* an invocation ends with an error (return nil, err)
Fail(w) == inv' = [inv EXCEPT ![w].pc = "done", ![w].status = "error"]

\* a handler that tests the id for emptiness without trimming it
StartJob_UntrimmedTest(w, job, ctxOk, overlapAllowed) ==
  /\ inv[w].pc = "idle"
  /\ started < MaxInvocations
  /\ \A v \in Workers : Active(v) => overlapAllowed /\ inv[v].job = job
  /\ started' = started + 1
  /\ now' = now + 1
  /\ LET others == {v \in Workers \ {w} :
                      Active(v) /\ inv[v].job.incident_id = job.incident_id}
         seen == IF job.incident_id \in DOMAIN okInv
                   THEN okInv[job.incident_id]
                   ELSE okInv["INC-1"]
         fresh == [Idle EXCEPT !.job = job,
                               !.overlap = (others # {})]
     IN IF ~ctxOk \/ job.incident_id = ""
          THEN inv' = [inv EXCEPT ![w] = [fresh EXCEPT !.pc = "done",
                                                       !.status = "error"]]
          ELSE inv' = [v \in Workers |->
                         IF v = w
                           THEN [fresh EXCEPT
                                   !.pc = "lookup",
                                   !.pred = seen.set,
                                   !.predResult = seen.result,
                                   !.predWebhook = seen.nWebhook]
                           ELSE IF v \in others
                                  THEN [inv[v] EXCEPT !.overlap = TRUE]
                                  ELSE inv[v]]
  /\ UNCHANGED <<nonPosterVars, cfg, cache, artifacts, results, posted, expiries, okInv>>

(***************************************************************************)
(* Poster handler, one action per external call                            *)
(***************************************************************************)
\* handler entry: GetContextJSON and the incident_id check
StartJob(w, job, ctxOk, overlapAllowed) ==
  /\ inv[w].pc = "idle"
  /\ started < MaxInvocations
  /\ \A v \in Workers : Active(v) => overlapAllowed /\ inv[v].job = job
  /\ started' = started + 1
  /\ now' = now + 1
  /\ LET others == {v \in Workers \ {w} :
                      Active(v) /\ inv[v].job.incident_id = job.incident_id}
         fresh == [Idle EXCEPT !.job = job,
                               !.overlap = (others # {})]
     IN IF ~ctxOk \/ TrimSpace(job.incident_id) = ""
          THEN inv' = [inv EXCEPT ![w] = [fresh EXCEPT !.pc = "done",
                                                       !.status = "error"]]
          ELSE inv' = [v \in Workers |->
                         IF v = w
                           THEN [fresh EXCEPT
                                   !.pc = "lookup",
                                   !.pred = okInv[job.incident_id].set,
                                   !.predResult = okInv[job.incident_id].result,
                                   !.predWebhook = okInv[job.incident_id].nWebhook]
                           ELSE IF v \in others
                                  THEN [inv[v] EXCEPT !.overlap = TRUE]
                                  ELSE inv[v]]
  /\ UNCHANGED <<nonPosterVars, cfg, cache, artifacts, results, posted, expiries, okInv>>

\* getCachedPost that never finds the entry
getCachedPost_AlwaysMiss(w, getOk) ==
  /\ inv[w].pc = "lookup"
  /\ IF ~getOk THEN inv' = [inv EXCEPT ![w].nGet = @ + 1,
                                       ![w].pc = "done", ![w].status = "error"]
               ELSE inv' = [inv EXCEPT ![w].nGet = @ + 1, ![w].pc = "resolve"]
  /\ UNCHANGED <<nonPosterVars, cfg, cache, artifacts, results, posted, expiries, okInv,
                 started, now>>

\* getCachedPost whose hit does not short-circuit the handler
getCachedPost_HitFallsThrough(w, getOk) ==
  /\ inv[w].pc = "lookup"
  /\ LET key == cacheKey(inv[w].job.incident_id)
     IN IF ~getOk
          THEN inv' = [inv EXCEPT ![w].nGet = @ + 1,
                                  ![w].pc = "done", ![w].status = "error"]
          ELSE IF key \in DOMAIN cache
                 THEN inv' = [inv EXCEPT
                                ![w].nGet = @ + 1, ![w].pc = "resolve",
                                ![w].hit = TRUE,
                                ![w].hitData = cache[key],
                                ![w].result = UnmarshalPostResult(cache[key])]
                 ELSE inv' = [inv EXCEPT ![w].nGet = @ + 1, ![w].pc = "resolve"]
  /\ UNCHANGED <<nonPosterVars, cfg, cache, artifacts, results, posted, expiries, okInv,
                 started, now>>

\* getCachedPost whose entry counts only for a job asking for its mode
getCachedPost_HitOnlyForSameMode(w, getOk) ==
  /\ inv[w].pc = "lookup"
  /\ LET key == cacheKey(inv[w].job.incident_id)
     IN IF ~getOk
          THEN inv' = [inv EXCEPT ![w].nGet = @ + 1,
                                  ![w].pc = "done", ![w].status = "error"]
          ELSE IF /\ key \in DOMAIN cache
                  /\ UnmarshalPostResult(cache[key]).mode =
                       ToLower(TrimSpace(inv[w].job.mode))
                 THEN inv' = [inv EXCEPT
                                ![w].nGet = @ + 1, ![w].pc = "build",
                                ![w].hit = TRUE,
                                ![w].hitData = cache[key],
                                ![w].result = UnmarshalPostResult(cache[key])]
                 ELSE inv' = [inv EXCEPT ![w].nGet = @ + 1, ![w].pc = "resolve"]
  /\ UNCHANGED <<nonPosterVars, cfg, cache, artifacts, results, posted, expiries, okInv,
                 started, now>>

\* getCachedPost that takes a miss (redis.Nil) for an error
getCachedPost_MissIsError(w, getOk) ==
  /\ inv[w].pc = "lookup"
  /\ inv[w].cancelled # "" => ~getOk
  /\ LET key == cacheKey(inv[w].job.incident_id)
     IN IF ~getOk \/ key \notin DOMAIN cache
          THEN inv' = [inv EXCEPT ![w].nGet = @ + 1,
                                  ![w].pc = "done", ![w].status = "error"]
          ELSE inv' = [inv EXCEPT
                         ![w].nGet = @ + 1, ![w].pc = "build",
                         ![w].hit = TRUE,
                         ![w].hitData = cache[key],
                         ![w].result = UnmarshalPostResult(cache[key])]
  /\ UNCHANGED <<nonPosterVars, cfg, cache, artifacts, results, posted,
                 expiries, okInv, started, now>>

\* getCachedPost and the hit / miss branch
getCachedPost(w, getOk) ==
  /\ inv[w].pc = "lookup"
  /\ inv[w].cancelled # "" => ~getOk
  /\ LET key == cacheKey(inv[w].job.incident_id)
     IN IF ~getOk
          THEN inv' = [inv EXCEPT ![w].nGet = @ + 1,
                                  ![w].pc = "done", ![w].status = "error"]
          ELSE IF key \in DOMAIN cache
                 THEN inv' = [inv EXCEPT
                                ![w].nGet = @ + 1, ![w].pc = "build",
                                ![w].hit = TRUE,
                                ![w].hitData = cache[key],
                                ![w].result = UnmarshalPostResult(cache[key])]
                 ELSE inv' = [inv EXCEPT ![w].nGet = @ + 1, ![w].pc = "resolve"]
  /\ UNCHANGED <<nonPosterVars, cfg, cache, artifacts, results, posted, expiries, okInv,
                 started, now>>

\* a resolution that sends every unknown mode down the artifact branch
ResolveMode_UnknownIsArtifact(w) ==
  /\ inv[w].pc = "resolve"
  /\ LET job == inv[w].job
         m0 == ToLower(TrimSpace(job.mode))
         mode == IF m0 = "" THEN "artifact" ELSE m0
         result == [ZeroPostResult EXCEPT !.incident_id = job.incident_id,
                                          !.mode = mode,
                                          !.posted_at = now]
         w0 == TrimSpace(job.slack_webhook_url)
         webhook == IF w0 = "" THEN cfg.SlackWebhookURL ELSE w0
         next == [inv[w] EXCEPT !.mode = mode, !.result = result]
     IN CASE mode = "slack" ->
               IF webhook = ""
                 THEN inv' = [inv EXCEPT ![w] = [next EXCEPT !.pc = "done",
                                                             !.status = "error"]]
                 ELSE inv' = [inv EXCEPT ![w] = [next EXCEPT !.pc = "policy",
                                                             !.webhook = webhook]]
          [] OTHER ->
               inv' = [inv EXCEPT ![w] = [next EXCEPT !.pc = "upload"]]
  /\ UNCHANGED <<nonPosterVars, cfg, cache, artifacts, results, posted, expiries, okInv,
                 started, now>>

\* a resolution that prefers the process-wide webhook to the job's own
ResolveMode_DefaultFirst(w) ==
  /\ inv[w].pc = "resolve"
  /\ LET job == inv[w].job
         m0 == ToLower(TrimSpace(job.mode))
         mode == IF m0 = "" THEN "artifact" ELSE m0
         result == [ZeroPostResult EXCEPT !.incident_id = job.incident_id,
                                          !.mode = mode,
                                          !.posted_at = now]
         w0 == TrimSpace(job.slack_webhook_url)
         webhook == IF cfg.SlackWebhookURL = "" THEN w0
                                                ELSE cfg.SlackWebhookURL
         next == [inv[w] EXCEPT !.mode = mode, !.result = result]
     IN CASE mode = "slack" ->
               IF webhook = ""
                 THEN inv' = [inv EXCEPT ![w] = [next EXCEPT !.pc = "done",
                                                             !.status = "error"]]
                 ELSE inv' = [inv EXCEPT ![w] = [next EXCEPT !.pc = "policy",
                                                             !.webhook = webhook]]
          [] mode = "artifact" ->
               inv' = [inv EXCEPT ![w] = [next EXCEPT !.pc = "upload"]]
          [] OTHER ->
               inv' = [inv EXCEPT ![w] = [next EXCEPT !.pc = "done",
                                                      !.status = "error"]]
  /\ UNCHANGED <<nonPosterVars, cfg, cache, artifacts, results, posted, expiries, okInv,
                 started, now>>

\* mode resolution, the fresh PostResult and the webhook target
ResolveMode(w) ==
  /\ inv[w].pc = "resolve"
  /\ LET job == inv[w].job
         m0 == ToLower(TrimSpace(job.mode))
         mode == IF m0 = "" THEN "artifact" ELSE m0
         result == [ZeroPostResult EXCEPT !.incident_id = job.incident_id,
                                          !.mode = mode,
                                          !.posted_at = now]
         w0 == TrimSpace(job.slack_webhook_url)
         webhook == IF w0 = "" THEN cfg.SlackWebhookURL ELSE w0
         next == [inv[w] EXCEPT !.mode = mode, !.result = result]
     IN CASE mode = "slack" ->
               IF webhook = ""
                 THEN inv' = [inv EXCEPT ![w] = [next EXCEPT !.pc = "done",
                                                             !.status = "error"]]
                 ELSE inv' = [inv EXCEPT ![w] = [next EXCEPT !.pc = "policy",
                                                             !.webhook = webhook]]
          [] mode = "artifact" ->
               inv' = [inv EXCEPT ![w] = [next EXCEPT !.pc = "upload"]]
          [] OTHER ->
               inv' = [inv EXCEPT ![w] = [next EXCEPT !.pc = "done",
                                                      !.status = "error"]]
  /\ UNCHANGED <<nonPosterVars, cfg, cache, artifacts, results, posted, expiries, okInv,
                 started, now>>

\* CheckHostPolicy that ignores the verdict of HostAllowed
CheckHostPolicy_IgnoresVerdict(w, parseOk) ==
  /\ inv[w].pc = "policy"
  /\ IF ~parseOk
       THEN Fail(w)
       ELSE inv' = [inv EXCEPT ![w].pc = "post",
                               ![w].checked = inv[w].webhook]
  /\ UNCHANGED <<nonPosterVars, cfg, cache, artifacts, results, posted, expiries, okInv,
                 started, now>>

\* policyconstraints.Parse and HostAllowed on the resolved webhook
CheckHostPolicy(w, parseOk) ==
  /\ inv[w].pc = "policy"
  /\ IF ~parseOk
       THEN Fail(w)
       ELSE IF ~HostAllowed(AllowedHosts, inv[w].webhook)
         THEN inv' = [inv EXCEPT ![w].pc = "done", ![w].status = "error",
                                 ![w].checked = inv[w].webhook]
         ELSE inv' = [inv EXCEPT ![w].pc = "post",
                                 ![w].checked = inv[w].webhook]
  /\ UNCHANGED <<nonPosterVars, cfg, cache, artifacts, results, posted, expiries, okInv,
                 started, now>>

\* a handler that goes on to the upload after a failed POST
PostWebhook_ErrorIgnored(w, postOk) ==
  /\ inv[w].pc = "post"
  /\ inv[w].cancelled # "" => ~postOk
  /\ LET id == inv[w].job.incident_id
     IN IF ~postOk
          THEN /\ inv' = [inv EXCEPT ![w].pc = "upload",
                                     ![w].nWebhook = @ + 1,
                                     ![w].postedTo = inv[w].webhook]
               /\ UNCHANGED posted
          ELSE /\ inv' = [inv EXCEPT ![w].pc = "upload",
                                     ![w].nWebhook = @ + 1,
                                     ![w].postedTo = inv[w].webhook,
                                     ![w].result.slack = [ok |-> TRUE]]
               /\ posted' = [posted EXCEPT ![id] = @ + 1]
  /\ UNCHANGED <<nonPosterVars, cfg, cache, artifacts, results, expiries, okInv,
                 started, now>>

\* slack.PostWebhook
PostWebhook(w, postOk) ==
  /\ inv[w].pc = "post"
  /\ inv[w].cancelled # "" => ~postOk
  /\ LET id == inv[w].job.incident_id
     IN IF ~postOk
          THEN /\ inv' = [inv EXCEPT ![w].pc = "done", ![w].status = "error",
                                     ![w].nWebhook = @ + 1,
                                     ![w].postedTo = inv[w].webhook]
               /\ UNCHANGED posted
          ELSE /\ inv' = [inv EXCEPT ![w].pc = "upload",
                                     ![w].nWebhook = @ + 1,
                                     ![w].postedTo = inv[w].webhook,
                                     ![w].result.slack = [ok |-> TRUE]]
               /\ posted' = [posted EXCEPT ![id] = @ + 1]
  /\ UNCHANGED <<nonPosterVars, cfg, cache, artifacts, results, expiries, okInv,
                 started, now>>

\* what the handler uploads: the Slack message text in slack mode, the
\* JSON object {incident, summary} in artifact mode
PostPayload(mode) ==
  IF mode = "slack" THEN "message" ELSE "incident+summary"

\* an upload whose pointer is not put into the PostResult
UploadArtifact_DropsPointer(w, upOk) ==
  /\ inv[w].pc = "upload"
  /\ IF ~upOk
       THEN /\ inv' = [inv EXCEPT ![w].pc = "done", ![w].status = "error",
                                  ![w].nUpload = @ + 1]
            /\ UNCHANGED artifacts
       ELSE /\ artifacts' = Append(artifacts,
                                   [kind |-> "post_payload",
                                    incident_id |-> inv[w].job.incident_id,
                                    mode |-> inv[w].mode,
                                    payload |-> PostPayload(inv[w].mode)])
            /\ inv' = [inv EXCEPT ![w].pc = "store",
                                  ![w].nUpload = @ + 1]
  /\ UNCHANGED <<nonPosterVars, cfg, cache, results, posted, expiries, okInv, started, now>>

\* a handler that goes on to the cache write after a failed upload
UploadArtifact_ErrorIgnored(w, upOk) ==
  /\ inv[w].pc = "upload"
  /\ inv[w].cancelled # "" => ~upOk
  /\ IF ~upOk
       THEN /\ inv' = [inv EXCEPT ![w].pc = "store",
                                  ![w].nUpload = @ + 1]
            /\ UNCHANGED artifacts
       ELSE /\ artifacts' = Append(artifacts,
                                   [kind |-> "post_payload",
                                    incident_id |-> inv[w].job.incident_id,
                                    mode |-> inv[w].mode,
                                    payload |-> PostPayload(inv[w].mode)])
            /\ inv' = [inv EXCEPT ![w].pc = "store",
                                  ![w].nUpload = @ + 1,
                                  ![w].result.artifact_ptr = Len(artifacts) + 1]
  /\ UNCHANGED <<nonPosterVars, cfg, cache, results, posted, expiries, okInv, started, now>>

\* artifacts.UploadText (slack) / artifacts.UploadJSON (artifact)
UploadArtifact(w, upOk) ==
  /\ inv[w].pc = "upload"
  /\ inv[w].cancelled # "" => ~upOk
  /\ IF ~upOk
       THEN /\ inv' = [inv EXCEPT ![w].pc = "done", ![w].status = "error",
                                  ![w].nUpload = @ + 1]
            /\ UNCHANGED artifacts
       ELSE /\ artifacts' = Append(artifacts,
                                   [kind |-> "post_payload",
                                    incident_id |-> inv[w].job.incident_id,
                                    mode |-> inv[w].mode,
                                    payload |-> PostPayload(inv[w].mode)])
            /\ inv' = [inv EXCEPT ![w].pc = "store",
                                  ![w].nUpload = @ + 1,
                                  ![w].result.artifact_ptr = Len(artifacts) + 1]
  /\ UNCHANGED <<nonPosterVars, cfg, cache, results, posted, expiries, okInv, started, now>>

\* storeCachedPost that writes under a key without the incident_id
storeCachedPost_ConstantKey(w, setOk) ==
  /\ inv[w].pc = "store"
  /\ LET key == cacheKey("")
     IN IF ~setOk
          THEN /\ inv' = [inv EXCEPT ![w].pc = "done", ![w].status = "error",
                                     ![w].nCacheSet = @ + 1]
               /\ UNCHANGED cache
          ELSE /\ cache' = [k \in DOMAIN cache \cup {key} |->
                              IF k = key THEN MarshalPostResult(inv[w].result)
                                         ELSE cache[k]]
               /\ inv' = [inv EXCEPT ![w].pc = "build",
                                     ![w].nCacheSet = @ + 1,
                                     ![w].stored = TRUE]
  /\ UNCHANGED <<nonPosterVars, cfg, artifacts, results, posted, expiries, okInv,
                 started, now>>

\* storeCachedPost whose error is dropped by the handler
storeCachedPost_ErrorIgnored(w, setOk) ==
  /\ inv[w].pc = "store"
  /\ LET key == cacheKey(inv[w].job.incident_id)
     IN IF ~setOk
          THEN /\ inv' = [inv EXCEPT ![w].pc = "build",
                                     ![w].nCacheSet = @ + 1]
               /\ UNCHANGED cache
          ELSE /\ cache' = [k \in DOMAIN cache \cup {key} |->
                              IF k = key THEN MarshalPostResult(inv[w].result)
                                         ELSE cache[k]]
               /\ inv' = [inv EXCEPT ![w].pc = "build",
                                     ![w].nCacheSet = @ + 1,
                                     ![w].stored = TRUE]
  /\ UNCHANGED <<nonPosterVars, cfg, artifacts, results, posted, expiries, okInv,
                 started, now>>

\* storeCachedPost
storeCachedPost(w, setOk) ==
  /\ inv[w].pc = "store"
  /\ inv[w].cancelled # "" => ~setOk
  /\ LET key == cacheKey(inv[w].job.incident_id)
     IN IF ~setOk
          THEN /\ inv' = [inv EXCEPT ![w].pc = "done", ![w].status = "error",
                                     ![w].nCacheSet = @ + 1]
               /\ UNCHANGED cache
          ELSE /\ cache' = [k \in DOMAIN cache \cup {key} |->
                              IF k = key THEN MarshalPostResult(inv[w].result)
                                         ELSE cache[k]]
               /\ inv' = [inv EXCEPT ![w].pc = "build",
                                     ![w].nCacheSet = @ + 1,
                                     ![w].stored = TRUE]
  /\ UNCHANGED <<nonPosterVars, cfg, artifacts, results, posted, expiries, okInv,
                 started, now>>

\* buildResult: PutResultJSON and the JobResult
buildResult(w, putOk) ==
  /\ inv[w].pc = "build"
  /\ inv[w].cancelled # "" => ~putOk
  /\ IF ~putOk
       THEN /\ inv' = [inv EXCEPT ![w].pc = "done", ![w].status = "error",
                                  ![w].nPtr = @ + 1]
            /\ UNCHANGED results
       ELSE /\ results' = [results EXCEPT
                             ![inv[w].job.incident_id] = inv[w].result]
            /\ inv' = [inv EXCEPT ![w].pc = "done", ![w].status = "ok",
                                  ![w].nPtr = @ + 1]
  /\ UNCHANGED <<nonPosterVars, cfg, cache, artifacts, posted, expiries, okInv,
                 started, now>>

\* the handler has returned; the worker is free for the next job
ReturnJob(w) ==
  /\ inv[w].pc = "done"
  /\ LET id == inv[w].job.incident_id
     IN IF inv[w].status = "ok" /\ ~inv[w].stale /\ ~okInv[id].set
          THEN okInv' = [okInv EXCEPT ![id] =
                           [set |-> TRUE, result |-> inv[w].result,
                            nWebhook |-> inv[w].nWebhook]]
          ELSE UNCHANGED okInv
  /\ inv' = [inv EXCEPT ![w] = Idle]
  /\ UNCHANGED <<nonPosterVars, cfg, cache, artifacts, results, posted, expiries,
                 started, now>>

\* the TTL of an incident's cache entry elapses (redis drops the key)
ExpireEntry(id) ==
  /\ cacheKey(id) \in DOMAIN cache
  /\ expiries[id] < MaxExpiries
  /\ cache' = [k \in DOMAIN cache \ {cacheKey(id)} |-> cache[k]]
  /\ expiries' = [expiries EXCEPT ![id] = @ + 1]
  /\ okInv' = [okInv EXCEPT ![id] = NoOk]
  /\ inv' = [w \in Workers |->
               IF inv[w].job.incident_id # id THEN inv[w]
               ELSE IF inv[w].pc = "lookup"
                 THEN [inv[w] EXCEPT !.pred = FALSE,
                                     !.predResult = ZeroPostResult,
                                     !.predWebhook = 0]
               ELSE IF inv[w].pc \in {"build", "done"}
                 THEN [inv[w] EXCEPT !.stale = TRUE]
               ELSE inv[w]]
  /\ UNCHANGED <<nonPosterVars, cfg, artifacts, results, posted, started, now>>

HandlerSteps ==
  \/ \E w \in Workers : \E ok \in BOOLEAN : getCachedPost(w, ok)
  \/ \E w \in Workers : ResolveMode(w)
  \/ \E w \in Workers : \E ok \in BOOLEAN : CheckHostPolicy(w, ok)
  \/ \E w \in Workers : \E ok \in BOOLEAN : PostWebhook(w, ok)
  \/ \E w \in Workers : \E ok \in BOOLEAN : UploadArtifact(w, ok)
  \/ \E w \in Workers : \E ok \in BOOLEAN : storeCachedPost(w, ok)
  \/ \E w \in Workers : \E ok \in BOOLEAN : buildResult(w, ok)
  \/ \E w \in Workers : ReturnJob(w)
  \/ \E id \in IncidentIDs : ExpireEntry(id)

\* the host runs invocations concurrently: a job may be delivered again
\* while an earlier delivery of it is still in flight
Next ==
  \/ \E w \in Workers : \E job \in Jobs : \E ok \in BOOLEAN :
       StartJob(w, job, ok, TRUE)
  \/ HandlerSteps

Spec == PosterInit /\ [][Next]_vars

\* the scheduler retries one after the other: invocations never overlap
NextSeq ==
  \/ \E w \in Workers : \E job \in Jobs : \E ok \in BOOLEAN :
       StartJob(w, job, ok, FALSE)
  \/ HandlerSteps

SpecSeq == PosterInit /\ [][NextSeq]_vars

(***************************************************************************)
(* Poster: properties                                                      *)
(***************************************************************************)
\* the destination mode a job asks for, as the handler compares it
ModeOf(job) == ToLower(TrimSpace(job.mode))

NoEffects(w) ==
  inv[w].nWebhook = 0 /\ inv[w].nUpload = 0 /\ inv[w].nCacheSet = 0

C2_AtMostOnePostPerIncident ==
  \A id \in IncidentIDs : expiries[id] = 0 => posted[id] <= 1

\* C3: an invocation that found a cache entry performs no webhook POST, no
\* artifact upload and no cache write, writes at most the result pointer,
\* and the PostResult it returns is the cached one verbatim (it encodes to
\* the very entry that was read).
C3_CacheHitShortCircuits ==
  \A w \in Workers :
    inv[w].hit
    => /\ NoEffects(w)
       /\ inv[w].pc \in {"build", "done"}
       /\ inv[w].nPtr <= 1
       /\ MarshalPostResult(inv[w].result) = inv[w].hitData
       /\ (inv[w].pc = "done" /\ inv[w].nPtr = 0) => inv[w].status # "ok"

C3_Witness ==
  \E w \in Workers :
    /\ inv[w].hit /\ inv[w].pc = "done" /\ inv[w].status = "ok"
    /\ inv[w].nPtr = 1
    /\ inv[w].result.slack.ok
    /\ inv[w].result.artifact_ptr # 0

\* C4: a slack-mode invocation whose resolved webhook host is not in the
\* allow-list ends with an error, and it has called the webhook sink zero
\* times, uploaded no artifact and written no cache entry.
C4_DisallowedHostNoEffect ==
  \A w \in Workers :
    (/\ inv[w].mode = "slack"
     /\ inv[w].webhook # ""
     /\ ~HostAllowed(AllowedHosts, inv[w].webhook))
    => /\ inv[w].pc \in {"policy", "done"}
       /\ inv[w].pc = "done" => inv[w].status = "error"
       /\ NoEffects(w)
       /\ inv[w].nPtr = 0

C4_Witness ==
  \E w \in Workers :
    /\ inv[w].pc = "done" /\ inv[w].status = "error"
    /\ inv[w].result.mode = "slack"
    /\ Host(inv[w].webhook) = "evil.example"

\* C5: an invocation that starts after a successful invocation for the same
\* incident_id has returned (the two do not overlap), and that looks the
\* cache up before the entry expires, never calls the webhook; two POSTs for
\* one incident within one cache lifetime therefore need overlapping
\* invocations (or a failed first one).  The witness is the race: both
\* invocations have read a miss and both have posted before either wrote.
C5_NoSecondPostAfterSuccess ==
  \A w \in Workers :
    inv[w].pred => /\ inv[w].nWebhook = 0
                   /\ inv[w].pc \in {"lookup", "build", "done"}

C5_Witness ==
  \E w, v \in Workers :
    /\ w # v
    /\ inv[w].job.incident_id = inv[v].job.incident_id
    /\ inv[w].overlap /\ inv[v].overlap
    /\ ~inv[w].hit /\ ~inv[v].hit
    /\ inv[w].nWebhook = 1 /\ inv[v].nWebhook = 1
    /\ inv[w].result.slack.ok /\ inv[v].result.slack.ok
    /\ ~inv[w].stored /\ ~inv[v].stored
    /\ cacheKey(inv[w].job.incident_id) \notin DOMAIN cache
    /\ expiries[inv[w].job.incident_id] = 0
    /\ posted[inv[w].job.incident_id] = 2

\* C6: an invocation that missed the cache reports success only after its
\* own cache write succeeded; a failed cache write ends it with an error.
\* When nothing overlapped and nothing expired, the entry under the
\* incident's key is the encoding of the PostResult it returns.
C6_SuccessOnlyAfterCacheWrite ==
  \A w \in Workers :
    LET id == inv[w].job.incident_id
    IN /\ (inv[w].pc = "done" /\ inv[w].status = "ok" /\ ~inv[w].hit)
            => /\ inv[w].stored
               /\ inv[w].nCacheSet = 1
               /\ (~inv[w].overlap /\ expiries[id] = 0)
                    => /\ cacheKey(id) \in DOMAIN cache
                       /\ cache[cacheKey(id)] = MarshalPostResult(inv[w].result)
       /\ (inv[w].nCacheSet = 1 /\ ~inv[w].stored)
            => inv[w].pc = "done" /\ inv[w].status = "error"

C6_Witness ==
  \E w \in Workers :
    /\ inv[w].pc = "done" /\ inv[w].status = "ok"
    /\ ~inv[w].hit /\ inv[w].stored
    /\ inv[w].result.mode = "slack"
    /\ cache[cacheKey(inv[w].job.incident_id)] = MarshalPostResult(inv[w].result)


(***************************************************************************)
(* Calls of truncateToBytes                                                *)
(***************************************************************************)
\* a caller is about to pass any string and any budget
TruncInit ==
  /\ PosterQuiet
  /\ trunc \in [pc : {"call"}, value : Strings, maxBytes : -1 .. MaxBudget,
                 out : {<<>>}]
  /\ fn = NoFn
  /\ sum = NoCollect
  /\ llm = NoLLM
  /\ sjob = NoSJob

\* the call returns
TruncateCall ==
  /\ trunc.pc = "call"
  /\ trunc' = [trunc EXCEPT !.pc = "ret",
                            !.out = truncateToBytes(trunc.value, trunc.maxBytes)]
  /\ UNCHANGED <<posterVars, sched, fn, sum, llm, sjob>>

NextTrunc == TruncateCall

SpecTrunc == TruncInit /\ [][NextTrunc]_vars

\* truncateToBytes of the llm package: the loop that drops bytes from the
\* end while the cut text is not valid UTF-8
RECURSIVE llm_dropInvalidTail(_)
llm_dropInvalidTail(truncated) ==
  IF Len(truncated) > 0 /\ ~ValidString(truncated)
    THEN llm_dropInvalidTail(SubSeq(truncated, 1, Len(truncated) - 1))
    ELSE truncated

\* a truncation that cuts at the budget and keeps a broken last character
llm_truncateToBytes_NoLoop(value, maxBytes) ==
  IF maxBytes <= 0 \/ Len(value) <= maxBytes
    THEN value
    ELSE SubSeq(value, 1, maxBytes)

\* truncateToBytes of the llm package
llm_truncateToBytes(value, maxBytes) ==
  IF maxBytes <= 0 \/ Len(value) <= maxBytes
    THEN value
    ELSE llm_dropInvalidTail(SubSeq(value, 1, maxBytes))

\* both packages' truncateToBytes are called with the same string and budget
TruncPairInit ==
  /\ PosterQuiet
  /\ trunc = NoCall
  /\ sum = NoCollect
  /\ llm = NoLLM
  /\ sjob = NoSJob
  /\ \E value \in Strings, maxBytes \in -1 .. MaxBudget :
       fn = [NoFn EXCEPT !.pc = "call", !.name = "truncateToBytes",
                         !.args = [value |-> value, maxBytes |-> maxBytes]]

\* both calls return
TruncatePair ==
  /\ fn.pc = "call"
  /\ fn.name = "truncateToBytes"
  /\ fn' = [fn EXCEPT
              !.pc = "ret",
              !.out = [summarizer |-> truncateToBytes(fn.args.value,
                                                      fn.args.maxBytes),
                       llm |-> llm_truncateToBytes(fn.args.value,
                                                   fn.args.maxBytes)]]
  /\ UNCHANGED <<posterVars, sched, trunc, sum, llm, sjob>>

NextTruncPair == TruncatePair

SpecTruncPair == TruncPairInit /\ [][NextTruncPair]_vars

\* C7 as stated: for every string and every budget b >= 0 the result has at
\* most b bytes, is valid text, and is the input whenever the input fits.
C7_TruncateWithinBudgetAnyInput ==
  (trunc.pc = "ret" /\ trunc.maxBytes >= 0)
  => /\ Len(trunc.out) <= trunc.maxBytes
     /\ ValidString(trunc.out)
     /\ Len(trunc.value) <= trunc.maxBytes => trunc.out = trunc.value

\* C7, amended: for every string and every budget b >= 1 the result has at
\* most b bytes and is the input whenever the input fits; it is valid text
\* whenever the input is valid text or is longer than b.  A budget b <= 0
\* returns the input unchanged.
C7_TruncateWithinPositiveBudget ==
  trunc.pc = "ret"
  => /\ trunc.maxBytes >= 1
          => /\ Len(trunc.out) <= trunc.maxBytes
             /\ Len(trunc.value) <= trunc.maxBytes => trunc.out = trunc.value
             /\ (ValidString(trunc.value) \/ Len(trunc.value) > trunc.maxBytes)
                  => ValidString(trunc.out)
     /\ trunc.maxBytes <= 0 => trunc.out = trunc.value

C7_Witness ==
  /\ trunc.pc = "ret"
  /\ trunc.maxBytes >= 1
  /\ Len(trunc.value) > trunc.maxBytes
  /\ ValidString(trunc.value)
  /\ ~ValidString(SubSeq(trunc.value, 1, trunc.maxBytes))
  /\ trunc.out # <<>>
  /\ ValidString(trunc.out)

\* encoded width of the character that starts with byte b
CharWidth(b) ==
  IF b < 128 THEN 1 ELSE IF b < 224 THEN 2 ELSE IF b < 240 THEN 3 ELSE 4

\* the byte offsets of valid text s at which a character ends
RECURSIVE BoundariesFrom(_, _)
BoundariesFrom(s, n) ==
  IF n >= Len(s) THEN {n}
  ELSE {n} \cup BoundariesFrom(s, n + CharWidth(s[n + 1]))

Boundaries(s) == BoundariesFrom(s, 0)

\* C8: for valid text s and a budget 0 < b < len(s), the result is the
\* prefix of s up to the last character boundary that is <= b; when b is
\* smaller than the width of the first character that prefix is empty.
C8_LongestPrefixOnBoundary ==
  (/\ trunc.pc = "ret"
   /\ ValidString(trunc.value)
   /\ trunc.maxBytes >= 1
   /\ trunc.maxBytes < Len(trunc.value))
  => LET fits == {n \in Boundaries(trunc.value) : n <= trunc.maxBytes}
         k == CHOOSE n \in fits : \A m \in fits : m <= n
     IN /\ trunc.out = SubSeq(trunc.value, 1, k)
        /\ trunc.maxBytes < CharWidth(trunc.value[1]) => trunc.out = <<>>

C8_Witness ==
  /\ trunc.pc = "ret"
  /\ Len(trunc.value) >= 1
  /\ ValidString(trunc.value)
  /\ trunc.maxBytes >= 1
  /\ trunc.maxBytes < CharWidth(trunc.value[1])
  /\ Len(trunc.value) > CharWidth(trunc.value[1])
  /\ trunc.out = <<>>

(***************************************************************************)
(* Summarizer: collectEvidenceText                                         *)
(***************************************************************************)
\* evidence items of a bundle: one without an artifact reference, one with
\* its own content type, one whose content type comes from the artifact
EvidenceItems ==
  {[kind |-> "note", title |-> "n", artifact_ptr |-> "", content_type |-> ""],
   [kind |-> "log", title |-> "l", artifact_ptr |-> "art:log",
    content_type |-> "text/plain"],
   [kind |-> "raw", title |-> "r", artifact_ptr |-> "art:raw",
    content_type |-> ""]}

Bundles == SeqsUpTo(EvidenceItems, MaxBundle)

\* JSON values as json.Unmarshal builds them in a map[string]any
JStr(v) == [t |-> "string", v |-> v]
JObj(v) == [t |-> "object", v |-> v]

\* what gw.GetArtifact may return: content bytes, the content_type of the
\* metadata, and what json.Unmarshal makes of the content
ArtifactDocs ==
  {\* "  "
   [content |-> <<32, 32>>, meta |-> "text/plain",
    json |-> [ok |-> FALSE, payload |-> JObj(<<>>)]],
   \* " A<U+20AC>A "
   [content |-> <<32, 65, 226, 130, 172, 65, 32>>, meta |-> "",
    json |-> [ok |-> FALSE, payload |-> JObj(<<>>)]],
   \* "{A"
   [content |-> <<123, 65>>, meta |-> "",
    json |-> [ok |-> FALSE, payload |-> JObj(<<>>)]],
   \* {"raw":{"message":" <U+20AC>A "}}
   [content |-> <<123, 34, 114, 97, 119, 34, 58, 123, 34, 109, 101, 115, 115, 97, 103, 101, 34, 58, 34, 32, 226, 130, 172, 65, 32, 34, 125, 125>>, meta |-> "application/json",
    json |-> [ok |-> TRUE,
              payload |-> JObj([k \in {"raw"} |->
                                 JObj([m \in {"message"} |-> JStr(<<32, 226, 130, 172, 65, 32>>)])])]]}

FetchOutcomes ==
  {[err |-> TRUE, content |-> <<>>, meta |-> ""]}
    \cup {[err |-> FALSE, content |-> d.content, meta |-> d.meta] :
            d \in ArtifactDocs}

\* a JSON number, which no path lookup accepts as a string
JNum == [t |-> "number", v |-> 1]

\* what a document holds under "raw", under "incident" and under "message":
\* nothing, a number, an object without message, an object whose message is
\* a string, a blank string or a number; an object with raw.message or with
\* a raw that is a number; a string, a blank string or a number
RawShapes == {"absent", "number", "empty", "text", "blank", "numeric"}
IncidentShapes == {"absent", "text", "number"}
MessageShapes == {"absent", "text", "blank", "number"}

DocShapes ==
  [raw : RawShapes, incident : IncidentShapes, message : MessageShapes]

NoShape == [raw |-> "absent", incident |-> "absent", message |-> "absent"]

RawValue(shape) ==
  CASE shape = "number" -> JNum
    [] shape = "empty" -> JObj(<<>>)
    [] shape = "text" -> JObj([k \in {"message"} |-> JStr(<<32, 82, 32>>)])
    [] shape = "blank" -> JObj([k \in {"message"} |-> JStr(<<32, 32>>)])
    [] shape = "numeric" -> JObj([k \in {"message"} |-> JNum])

IncidentValue(shape) ==
  CASE shape = "text" ->
         JObj([k \in {"raw"} |-> JObj([m \in {"message"} |-> JStr(<<73>>)])])
    [] shape = "number" -> JObj([k \in {"raw"} |-> JNum])

MessageValue(shape) ==
  CASE shape = "text" -> JStr(<<32, 77>>)
    [] shape = "blank" -> JStr(<<32>>)
    [] shape = "number" -> JNum

\* the JSON object of a shape
PayloadOf(shape) ==
  JObj([k \in {x \in {"raw", "incident", "message"} : shape[x] # "absent"} |->
          CASE k = "raw" -> RawValue(shape.raw)
            [] k = "incident" -> IncidentValue(shape.incident)
            [] k = "message" -> MessageValue(shape.message)])

KeyBytes(k) ==
  CASE k = "raw" -> <<114, 97, 119>>
    [] k = "incident" -> <<105, 110, 99, 105, 100, 101, 110, 116>>
    [] k = "message" -> <<109, 101, 115, 115, 97, 103, 101>>

\* the JSON text of a value, as json.Marshal writes it (keys sorted)
RECURSIVE RenderValue(_)
RECURSIVE RenderFields(_, _)
RenderValue(v) ==
  CASE v.t = "string" -> <<34>> \o v.v \o <<34>>
    [] v.t = "number" -> <<49>>
    [] v.t = "object" ->
         <<123>>
           \o RenderFields(v.v, SelectSeq(<<"incident", "message", "raw">>,
                                          LAMBDA k : k \in DOMAIN v.v))
           \o <<125>>

RenderFields(f, keys) ==
  IF keys = <<>> THEN <<>>
  ELSE <<34>> \o KeyBytes(Head(keys)) \o <<34, 58>>
         \o RenderValue(f[Head(keys)])
         \o (IF Len(keys) > 1 THEN <<44>> ELSE <<>>)
         \o RenderFields(f, Tail(keys))

\* artifact contents handed to extractEvidenceText, with whether
\* json.Unmarshal into a map[string]any accepts them: JSON objects, bare
\* and surrounded by white space, objects cut short, null, an array, and
\* plain text
ExtractDocs ==
  {[content |-> RenderValue(PayloadOf(s)), ok |-> TRUE, shape |-> s] :
     s \in DocShapes}
  \cup
  {[content |-> <<32>> \o RenderValue(PayloadOf(s)) \o <<10>>, ok |-> TRUE,
    shape |-> s] : s \in DocShapes}
  \cup
  {[content |-> SubSeq(RenderValue(PayloadOf(s)), 1,
                       Len(RenderValue(PayloadOf(s))) - 1),
    ok |-> FALSE, shape |-> s] : s \in DocShapes}
  \cup
  {[content |-> <<110, 117, 108, 108>>, ok |-> TRUE, shape |-> NoShape],
   [content |-> <<91, 49, 93>>, ok |-> FALSE, shape |-> NoShape],
   [content |-> <<32, 65, 226, 130, 172, 65, 32>>, ok |-> FALSE,
    shape |-> NoShape],
   [content |-> <<32, 32>>, ok |-> FALSE, shape |-> NoShape],
   [content |-> <<>>, ok |-> FALSE, shape |-> NoShape]}

\* json.Unmarshal(content, &payload) with payload a map[string]any
JSONUnmarshal(content) ==
  IF \E d \in ArtifactDocs : d.content = content /\ d.json.ok
    THEN (CHOOSE d \in ArtifactDocs : d.content = content /\ d.json.ok).json
  ELSE IF \E d \in ExtractDocs : d.content = content /\ d.ok
    THEN [ok |-> TRUE,
          payload |-> PayloadOf((CHOOSE d \in ExtractDocs :
                                   d.content = content /\ d.ok).shape)]
  ELSE [ok |-> FALSE, payload |-> JObj(<<>>)]

IsSpace(c) == c \in {9, 10, 11, 12, 13, 32}

\* strings.TrimSpace on byte strings
RECURSIVE TrimLeft(_)
TrimLeft(t) ==
  IF Len(t) > 0 /\ IsSpace(t[1]) THEN TrimLeft(Tail(t)) ELSE t

RECURSIVE TrimRight(_)
TrimRight(t) ==
  IF Len(t) > 0 /\ IsSpace(t[Len(t)])
    THEN TrimRight(SubSeq(t, 1, Len(t) - 1))
    ELSE t

TrimSpaceBytes(t) == TrimRight(TrimLeft(t))

\* nestedString(payload, path...)
RECURSIVE nestedString(_, _)
nestedString(current, path) ==
  IF path = <<>>
    THEN IF current.t = "string" THEN TrimSpaceBytes(current.v) ELSE <<>>
    ELSE IF current.t # "object" THEN <<>>
    ELSE IF Head(path) \notin DOMAIN current.v THEN <<>>
    ELSE nestedString(current.v[Head(path)], Tail(path))

\* stringField(payload, key)
stringField(payload, key) ==
  IF key \notin DOMAIN payload.v THEN <<>>
  ELSE IF payload.v[key].t # "string" THEN <<>>
  ELSE TrimSpaceBytes(payload.v[key].v)

\* strings.Contains(strings.ToLower(contentType), "json")
ContainsJson(contentType) ==
  ToLower(contentType) \in {"application/json", "application/problem+json"}

\* an extraction that looks at the top-level message first
extractEvidenceText_MessageFirst(content, contentType) ==
  LET trimmed == TrimSpaceBytes(content)
      parsed == JSONUnmarshal(content)
      m1 == nestedString(parsed.payload, <<"raw", "message">>)
      m2 == nestedString(parsed.payload, <<"incident", "raw", "message">>)
      m3 == stringField(parsed.payload, "message")
  IN IF trimmed = <<>> THEN <<>>
     ELSE IF (ContainsJson(contentType) \/ trimmed[1] = 123) /\ parsed.ok
       THEN IF m3 # <<>> THEN m3
            ELSE IF m1 # <<>> THEN m1
            ELSE IF m2 # <<>> THEN m2
            ELSE trimmed
       ELSE trimmed

\* extractEvidenceText(content, contentType)
extractEvidenceText(content, contentType) ==
  LET trimmed == TrimSpaceBytes(content)
      parsed == JSONUnmarshal(content)
      m1 == nestedString(parsed.payload, <<"raw", "message">>)
      m2 == nestedString(parsed.payload, <<"incident", "raw", "message">>)
      m3 == stringField(parsed.payload, "message")
  IN IF trimmed = <<>> THEN <<>>
     ELSE IF (ContainsJson(contentType) \/ trimmed[1] = 123) /\ parsed.ok
       THEN IF m1 # <<>> THEN m1
            ELSE IF m2 # <<>> THEN m2
            ELSE IF m3 # <<>> THEN m3
            ELSE trimmed
       ELSE trimmed

defaultMaxItems == 4
defaultMaxBytes == 32768

\* maxItems and maxBytes after the defaults of collectEvidenceText
EffMaxItems == IF sum.maxItems <= 0 THEN defaultMaxItems ELSE sum.maxItems
EffMaxBytes == IF sum.maxBytes <= 0 THEN defaultMaxBytes ELSE sum.maxBytes

\* the content types an evidence item or the artifact metadata may declare
ContentTypes ==
  {"", "text/plain", "application/json", "Application/JSON",
   "application/problem+json"}

\* extractEvidenceText is called with any content and any content type
ExtractInit ==
  /\ PosterQuiet
  /\ trunc = NoCall
  /\ sum = NoCollect
  /\ llm = NoLLM
  /\ sjob = NoSJob
  /\ \E d \in ExtractDocs, ct \in ContentTypes :
       fn = [NoFn EXCEPT !.pc = "call", !.name = "extractEvidenceText",
                         !.args = [doc |-> d, contentType |-> ct]]

\* the call returns
ExtractCall ==
  /\ fn.pc = "call"
  /\ fn.name = "extractEvidenceText"
  /\ fn' = [fn EXCEPT !.pc = "ret",
                      !.out = extractEvidenceText(fn.args.doc.content,
                                                  fn.args.contentType)]
  /\ UNCHANGED <<posterVars, sched, trunc, sum, llm, sjob>>

NextExtract == ExtractCall

SpecExtract == ExtractInit /\ [][NextExtract]_vars

\* the handler calls collectEvidenceText with any bundle and any budgets
CollectInit ==
  /\ PosterQuiet
  /\ trunc = NoCall
  /\ fn = NoFn
  /\ llm = NoLLM
  /\ sjob = NoSJob
  /\ sum \in [pc : {"collect"}, bundle : Bundles,
               maxItems : 0 .. MaxItemsBudget, maxBytes : 0 .. MaxBytesBudget,
               idx : {1}, out : {<<>>}, total : {0}, fetched : {<<>>},
               failed : {<<>>}, good : {<<>>}]

InLoop == sum.pc = "collect" /\ sum.idx <= Len(sum.bundle)

\* if item.ArtifactPtr == "" { continue }
CollectSkipItem ==
  /\ InLoop
  /\ sum.bundle[sum.idx].artifact_ptr = ""
  /\ sum' = [sum EXCEPT !.idx = @ + 1]
  /\ UNCHANGED <<posterVars, sched, fn, trunc, llm, sjob>>

\* if len(out) >= maxItems || total >= maxBytes { break }
CollectBreak ==
  /\ InLoop
  /\ sum.bundle[sum.idx].artifact_ptr # ""
  /\ Len(sum.out) >= EffMaxItems \/ sum.total >= EffMaxBytes
  /\ sum' = [sum EXCEPT !.pc = "collected"]
  /\ UNCHANGED <<posterVars, sched, fn, trunc, llm, sjob>>

\* an iteration that appends the text without truncating it
CollectFetch_NoTruncate(fetch) ==
  /\ InLoop
  /\ LET item == sum.bundle[sum.idx]
         contentType == IF item.content_type = "" THEN fetch.meta
                                                  ELSE item.content_type
         text0 == TrimSpaceBytes(extractEvidenceText(fetch.content, contentType))
         remaining == EffMaxBytes - sum.total
         text == text0
         entry == [kind |-> item.kind, title |-> item.title,
                   artifact_ptr |-> item.artifact_ptr,
                   content_type |-> contentType, content |-> text]
         next == [sum EXCEPT !.idx = @ + 1,
                             !.fetched = Append(@, sum.idx),
                             !.failed = IF fetch.err THEN Append(@, sum.idx)
                                                     ELSE @,
                             !.good = IF ~fetch.err /\ text0 # <<>>
                                        THEN Append(@, sum.idx)
                                        ELSE @]
     IN /\ item.artifact_ptr # ""
        /\ ~(Len(sum.out) >= EffMaxItems \/ sum.total >= EffMaxBytes)
        /\ IF fetch.err \/ text0 = <<>>
             THEN sum' = next
             ELSE IF remaining <= 0
               THEN sum' = [next EXCEPT !.pc = "collected"]
               ELSE sum' = [next EXCEPT !.total = @ + Len(text),
                                        !.out = Append(@, entry)]
  /\ UNCHANGED <<posterVars, sched, fn, trunc, llm, sjob>>

\* an iteration that puts the new item in front of the output
CollectFetch_Prepends(fetch) ==
  /\ InLoop
  /\ LET item == sum.bundle[sum.idx]
         contentType == IF item.content_type = "" THEN fetch.meta
                                                  ELSE item.content_type
         text0 == TrimSpaceBytes(extractEvidenceText(fetch.content, contentType))
         remaining == EffMaxBytes - sum.total
         text == truncateToBytes(text0, remaining)
         entry == [kind |-> item.kind, title |-> item.title,
                   artifact_ptr |-> item.artifact_ptr,
                   content_type |-> contentType, content |-> text]
         next == [sum EXCEPT !.idx = @ + 1,
                             !.fetched = Append(@, sum.idx),
                             !.failed = IF fetch.err THEN Append(@, sum.idx)
                                                     ELSE @,
                             !.good = IF ~fetch.err /\ text0 # <<>>
                                        THEN Append(@, sum.idx)
                                        ELSE @]
     IN /\ item.artifact_ptr # ""
        /\ ~(Len(sum.out) >= EffMaxItems \/ sum.total >= EffMaxBytes)
        /\ IF fetch.err \/ text0 = <<>>
             THEN sum' = next
             ELSE IF remaining <= 0
               THEN sum' = [next EXCEPT !.pc = "collected"]
               ELSE sum' = [next EXCEPT !.total = @ + Len(text),
                                        !.out = <<entry>> \o @]
  /\ UNCHANGED <<posterVars, sched, fn, trunc, llm, sjob>>

\* an iteration whose failed fetch ends the loop and fails the job
CollectFetch_FetchErrorFails(fetch) ==
  /\ InLoop
  /\ LET item == sum.bundle[sum.idx]
         contentType == IF item.content_type = "" THEN fetch.meta
                                                  ELSE item.content_type
         text0 == TrimSpaceBytes(extractEvidenceText(fetch.content, contentType))
         remaining == EffMaxBytes - sum.total
         text == truncateToBytes(text0, remaining)
         entry == [kind |-> item.kind, title |-> item.title,
                   artifact_ptr |-> item.artifact_ptr,
                   content_type |-> contentType, content |-> text]
         next == [sum EXCEPT !.idx = @ + 1,
                             !.fetched = Append(@, sum.idx),
                             !.failed = IF fetch.err THEN Append(@, sum.idx)
                                                     ELSE @,
                             !.good = IF ~fetch.err /\ text0 # <<>>
                                        THEN Append(@, sum.idx)
                                        ELSE @]
     IN /\ item.artifact_ptr # ""
        /\ ~(Len(sum.out) >= EffMaxItems \/ sum.total >= EffMaxBytes)
        /\ sjob' = IF fetch.err
                     THEN [sjob EXCEPT !.pc = "done", !.status = "error"]
                     ELSE sjob
        /\ IF fetch.err
             THEN sum' = [next EXCEPT !.pc = "collected"]
           ELSE IF text0 = <<>>
             THEN sum' = next
             ELSE IF remaining <= 0
               THEN sum' = [next EXCEPT !.pc = "collected"]
               ELSE sum' = [next EXCEPT !.total = @ + Len(text),
                                        !.out = Append(@, entry)]
  /\ UNCHANGED <<posterVars, sched, fn, trunc, llm>>

\* an iteration that fetches the same item again after a failed fetch
CollectFetch_RetriesFetch(fetch) ==
  /\ InLoop
  /\ LET item == sum.bundle[sum.idx]
         contentType == IF item.content_type = "" THEN fetch.meta
                                                  ELSE item.content_type
         text0 == TrimSpaceBytes(extractEvidenceText(fetch.content, contentType))
         remaining == EffMaxBytes - sum.total
         text == truncateToBytes(text0, remaining)
         entry == [kind |-> item.kind, title |-> item.title,
                   artifact_ptr |-> item.artifact_ptr,
                   content_type |-> contentType, content |-> text]
         next == [sum EXCEPT !.idx = @ + 1,
                             !.fetched = Append(@, sum.idx),
                             !.failed = IF fetch.err THEN Append(@, sum.idx)
                                                     ELSE @,
                             !.good = IF ~fetch.err /\ text0 # <<>>
                                        THEN Append(@, sum.idx)
                                        ELSE @]
     IN /\ item.artifact_ptr # ""
        /\ ~(Len(sum.out) >= EffMaxItems \/ sum.total >= EffMaxBytes)
        /\ IF fetch.err
             THEN sum' = [next EXCEPT !.idx = sum.idx]
           ELSE IF text0 = <<>>
             THEN sum' = next
             ELSE IF remaining <= 0
               THEN sum' = [next EXCEPT !.pc = "collected"]
               ELSE sum' = [next EXCEPT !.total = @ + Len(text),
                                        !.out = Append(@, entry)]
  /\ UNCHANGED <<posterVars, sched, fn, trunc, llm, sjob>>

\* a loop that emits an item whose text is blank
CollectFetch_EmitsBlank(fetch) ==
  /\ InLoop
  /\ LET item == sum.bundle[sum.idx]
         contentType == IF item.content_type = "" THEN fetch.meta
                                                  ELSE item.content_type
         text0 == TrimSpaceBytes(extractEvidenceText(fetch.content, contentType))
         remaining == EffMaxBytes - sum.total
         text == truncateToBytes(text0, remaining)
         entry == [kind |-> item.kind, title |-> item.title,
                   artifact_ptr |-> item.artifact_ptr,
                   content_type |-> contentType, content |-> text]
         next == [sum EXCEPT !.idx = @ + 1,
                             !.fetched = Append(@, sum.idx),
                             !.failed = IF fetch.err THEN Append(@, sum.idx)
                                                     ELSE @,
                             !.good = IF ~fetch.err /\ text0 # <<>>
                                        THEN Append(@, sum.idx)
                                        ELSE @]
     IN /\ item.artifact_ptr # ""
        /\ ~(Len(sum.out) >= EffMaxItems \/ sum.total >= EffMaxBytes)
        /\ IF fetch.err
             THEN sum' = next
             ELSE IF remaining <= 0
               THEN sum' = [next EXCEPT !.pc = "collected"]
               ELSE sum' = [next EXCEPT !.total = @ + Len(text),
                                        !.out = Append(@, entry)]
  /\ UNCHANGED <<posterVars, sched, fn, trunc, llm, sjob>>

\* a loop that goes on fetching after max_items items were emitted
CollectFetch_IgnoresItemBudget(fetch) ==
  /\ InLoop
  /\ sjob.cancelled # "" => fetch.err
  /\ LET item == sum.bundle[sum.idx]
         contentType == IF item.content_type = "" THEN fetch.meta
                                                  ELSE item.content_type
         text0 == TrimSpaceBytes(extractEvidenceText(fetch.content, contentType))
         remaining == EffMaxBytes - sum.total
         text == truncateToBytes(text0, remaining)
         entry == [kind |-> item.kind, title |-> item.title,
                   artifact_ptr |-> item.artifact_ptr,
                   content_type |-> contentType, content |-> text]
         next == [sum EXCEPT !.idx = @ + 1,
                             !.fetched = Append(@, sum.idx),
                             !.failed = IF fetch.err THEN Append(@, sum.idx)
                                                     ELSE @,
                             !.good = IF ~fetch.err /\ text0 # <<>>
                                        THEN Append(@, sum.idx)
                                        ELSE @]
     IN /\ item.artifact_ptr # ""
        /\ ~(sum.total >= EffMaxBytes)
        /\ IF fetch.err \/ text0 = <<>>
             THEN sum' = next
             ELSE IF remaining <= 0
               THEN sum' = [next EXCEPT !.pc = "collected"]
               ELSE sum' = [next EXCEPT !.total = @ + Len(text),
                                        !.out = Append(@, entry)]
  /\ UNCHANGED <<posterVars, sched, fn, trunc, llm, sjob>>

\* gw.GetArtifact, extractEvidenceText, truncateToBytes, append
CollectFetch(fetch) ==
  /\ InLoop
  /\ sjob.cancelled # "" => fetch.err
  /\ LET item == sum.bundle[sum.idx]
         contentType == IF item.content_type = "" THEN fetch.meta
                                                  ELSE item.content_type
         text0 == TrimSpaceBytes(extractEvidenceText(fetch.content, contentType))
         remaining == EffMaxBytes - sum.total
         text == truncateToBytes(text0, remaining)
         entry == [kind |-> item.kind, title |-> item.title,
                   artifact_ptr |-> item.artifact_ptr,
                   content_type |-> contentType, content |-> text]
         next == [sum EXCEPT !.idx = @ + 1,
                             !.fetched = Append(@, sum.idx),
                             !.failed = IF fetch.err THEN Append(@, sum.idx)
                                                     ELSE @,
                             !.good = IF ~fetch.err /\ text0 # <<>>
                                        THEN Append(@, sum.idx)
                                        ELSE @]
     IN /\ item.artifact_ptr # ""
        /\ ~(Len(sum.out) >= EffMaxItems \/ sum.total >= EffMaxBytes)
        /\ IF fetch.err \/ text0 = <<>>
             THEN sum' = next
             ELSE IF remaining <= 0
               THEN sum' = [next EXCEPT !.pc = "collected"]
               ELSE sum' = [next EXCEPT !.total = @ + Len(text),
                                        !.out = Append(@, entry)]
  /\ UNCHANGED <<posterVars, sched, fn, trunc, llm, sjob>>

\* the range loop is over: return out
CollectReturn ==
  /\ sum.pc = "collect"
  /\ sum.idx > Len(sum.bundle)
  /\ sum' = [sum EXCEPT !.pc = "collected"]
  /\ UNCHANGED <<posterVars, sched, fn, trunc, llm, sjob>>

NextCollect ==
  \/ CollectSkipItem
  \/ CollectBreak
  \/ \E fetch \in FetchOutcomes : CollectFetch(fetch)
  \/ CollectReturn

SpecCollect == CollectInit /\ [][NextCollect]_vars

RECURSIVE ContentBytes(_)
ContentBytes(out) ==
  IF out = <<>> THEN 0 ELSE Len(Head(out).content) + ContentBytes(Tail(out))

\* C9: with positive budgets, collectEvidenceText never holds, and so never
\* returns, more than max_items items or more than max_bytes bytes of
\* content in total.
C9_OutputWithinBudgets ==
  (sum.pc \in {"collect", "collected"} /\ sum.maxItems > 0 /\ sum.maxBytes > 0)
  => /\ Len(sum.out) <= sum.maxItems
     /\ ContentBytes(sum.out) <= sum.maxBytes

C9_Witness ==
  /\ sum.pc = "collected"
  /\ sum.maxItems > 0 /\ sum.maxBytes > 0
  /\ Len(sum.out) = sum.maxItems
  /\ ContentBytes(sum.out) = sum.maxBytes
  /\ Len(sum.fetched) > Len(sum.out)
  /\ sum.idx <= Len(sum.bundle)

\* the strictly increasing maps from output positions to bundle positions
Embeddings(n, m) ==
  {f \in [1 .. n -> 1 .. m] : \A i, j \in 1 .. n : i < j => f[i] < f[j]}

\* C10: the output is an order-preserving subsequence of the bundle: its
\* items can be matched, in order and one to one, with bundle items of the
\* same kind, title and artifact reference, all of which were fetched.
C10_OutputIsSubsequence ==
  sum.pc \in {"collect", "collected"}
  => \E f \in Embeddings(Len(sum.out), Len(sum.bundle)) :
       \A i \in 1 .. Len(sum.out) :
         /\ sum.out[i].kind = sum.bundle[f[i]].kind
         /\ sum.out[i].title = sum.bundle[f[i]].title
         /\ sum.out[i].artifact_ptr = sum.bundle[f[i]].artifact_ptr
         /\ f[i] < sum.idx
         /\ \E k \in 1 .. Len(sum.fetched) : sum.fetched[k] = f[i]

C10_Witness ==
  /\ sum.pc = "collected"
  /\ Len(sum.bundle) = 3
  /\ Len(sum.out) = 2
  /\ Len(sum.fetched) = 3
  /\ sum.out[1].title # sum.out[2].title
  /\ sum.out[1].title = sum.bundle[1].title
  /\ sum.out[2].title = sum.bundle[3].title

(***************************************************************************)
(* internal/llm: inputs                                                    *)
(***************************************************************************)
RawProviders == {"", "mock", " Mock ", "openai", "ollama", "claude"}
RawRedactions == {"", "none", " None ", "strict", " Strict "}
RawOllamaModels == {"", " llama3 "}
RawOllamaURLs == {"", "/", "http://ollama:11434/"}

\* strings.TrimRight(s, "/") on the URLs the model uses
TrimRightSlash(s) ==
  CASE s = "/" -> ""
    [] s = "http://ollama:11434/" -> "http://ollama:11434"
    [] OTHER -> s

\* "ollama:" + model
OllamaModelName(model) ==
  CASE model = "llama3" -> "ollama:llama3"
    [] OTHER -> "ollama:"

\* the bytes of an incident id
BytesOf(id) ==
  CASE id = "INC-1" -> <<73, 78, 67, 45, 49>>
    [] id = " INC-1 " -> <<32, 73, 78, 67, 45, 49, 32>>
    [] OTHER -> <<>>

\* strconv.Itoa for one decimal digit
Itoa(n) == <<48 + n>>

\* time.Unix(t, 0).UTC().Format(time.RFC3339) for t in 0 .. 9
FormatRFC3339(t) ==
  <<49, 57, 55, 48, 45, 48, 49, 45, 48, 49, 84, 48, 48, 58, 48, 48, 58,
    48>> \o Itoa(t) \o <<90>>

\* the JSON text of a summary object with the given summary_md and
\* confidence literal: {"summary_md":"...","highlights":["h"],
\* "action_items":["a"],"confidence":...}
SummaryJSON(md, conf) ==
  <<123, 34, 115, 117, 109, 109, 97, 114, 121, 95, 109, 100, 34, 58, 34>>
    \o md
    \o <<34, 44, 34, 104, 105, 103, 104, 108, 105, 103, 104, 116, 115, 34,
      58, 91, 34, 104, 34, 93, 44, 34, 97, 99, 116, 105, 111, 110, 95, 105,
      116, 101, 109, 115, 34, 58, 91, 34, 97, 34, 93, 44, 34, 99, 111, 110,
      102, 105, 100, 101, 110, 99, 101, 34, 58>>
    \o conf \o <<125>>

\* the same object written over several lines
PrettyJSON(md, conf) ==
  LET j == SummaryJSON(md, conf)
  IN <<123, 10>> \o SubSeq(j, 2, Len(j) - 1) \o <<10, 125>>

\* the summary objects a reply may carry, with what json.Unmarshal into a
\* summaryPayload makes of each text
SummaryDocs ==
  LET hl == << <<104>> >>
      ai == << <<97>> >>
      doc(text, md, c) ==
        [text |-> text, ok |-> TRUE,
         payload |-> [summary_md |-> md, highlights |-> hl,
                      action_items |-> ai, confidence |-> c]]
  IN {doc(SummaryJSON(<<83>>, <<48, 46, 53>>), <<83>>, 5),
      doc(SummaryJSON(<<83>>, <<50>>), <<83>>, 20),
      doc(SummaryJSON(<<83>>, <<45, 49>>), <<83>>, -10),
      doc(SummaryJSON(<<>>, <<48, 46, 53>>), <<>>, 5),
      doc(SummaryJSON(<<>>, <<50>>), <<>>, 20),
      doc(PrettyJSON(<<80>>, <<49>>), <<80>>, 10),
      \* summary_md holding a fence and braces: a```{b}
      doc(SummaryJSON(<<97, 96, 96, 96, 123, 98, 125>>, <<48>>), <<97, 96,
        96, 96, 123, 98, 125>>, 0),
      \* {"summary_md":5}: a number where a string is expected
      [text |-> <<123, 34, 115, 117, 109, 109, 97, 114, 121, 95, 109, 100,
        34, 58, 53, 125>>, ok |-> FALSE, payload |-> ZeroPayload]}

\* the ways a reply may carry a summary object J
Wrappings ==
  {"raw", "padded", "fenced_json", "fenced_bare", "prose", "brace_before",
   "brace_after"}

Wrapped(kind, j) ==
  CASE kind = "raw" -> j
    [] kind = "padded" -> <<32>> \o j \o <<10>>
    [] kind = "fenced_json" -> <<96, 96, 96, 106, 115, 111, 110, 10>> \o j
      \o <<10, 96, 96, 96>>
    [] kind = "fenced_bare" -> <<96, 96, 96, 10>> \o j \o <<10, 96, 96, 96>>
    [] kind = "prose" -> <<72, 101, 114, 101, 58, 32>> \o j \o <<32, 68,
      111, 110, 101, 46>>
    [] kind = "brace_before" -> <<85, 115, 101, 32, 123, 120, 125, 58,
      32>> \o j
    [] kind = "brace_after" -> j \o <<32, 58, 45, 125>>

\* message contents that carry no summary object
PlainReplies ==
  {<<>>, <<32, 10>>, <<111, 107>>, <<32, 111, 107, 10>>, <<123, 65>>,
    <<96, 96, 96, 10, 111, 107, 10, 96, 96, 96>>,
   <<123, 34, 115, 117, 109, 109, 97, 114, 121, 95, 109, 100, 34, 58, 53,
     125>>}

\* what the POST to /api/chat may come back with
RoundTrips ==
  LET rt(status, error, content, kind, doc) ==
        [transport |-> TRUE, decoded |-> TRUE, status |-> status,
         error |-> error, content |-> content, kind |-> kind, doc |-> doc]
      good == SummaryJSON(<<83>>, <<48, 46, 53>>)
  IN {[NoRoundTrip EXCEPT !.kind = "transport_error"],
      [NoRoundTrip EXCEPT !.transport = TRUE, !.status = 200,
                          !.kind = "decode_error"]}
       \cup {rt(s, e, good, "status", good) :
               s \in {199, 300, 500}, e \in {<<>>, <<98, 111, 111, 109>>}}
       \cup {rt(s, <<98, 111, 111, 109>>, good, "error_field", good) : s
         \in {200, 299}}
       \cup {rt(200, <<>>, c, "plain", <<>>) : c \in PlainReplies}
       \cup {rt(200, <<>>, Wrapped(k, d.text), k, d.text) :
               k \in Wrappings, d \in {x \in SummaryDocs : x.ok}}

(***************************************************************************)
(* internal/llm: parseSummaryJSON                                          *)
(***************************************************************************)
\* strings.HasPrefix
HasPrefix(s, prefix) ==
  Len(s) >= Len(prefix) /\ SubSeq(s, 1, Len(prefix)) = prefix

\* strings.Index: byte offset of the first occurrence, -1 when absent
Index(s, sub) ==
  LET hits == {i \in 0 .. Len(s) - Len(sub) :
                 SubSeq(s, i + 1, i + Len(sub)) = sub}
  IN IF hits = {} THEN -1 ELSE CHOOSE i \in hits : \A j \in hits : i <= j

\* strings.LastIndex: byte offset of the last occurrence, -1 when absent
LastIndex(s, sub) ==
  LET hits == {i \in 0 .. Len(s) - Len(sub) :
                 SubSeq(s, i + 1, i + Len(sub)) = sub}
  IN IF hits = {} THEN -1 ELSE CHOOSE i \in hits : \A j \in hits : i >= j

\* json.Unmarshal([]byte(text), &payload) with payload a summaryPayload
UnmarshalSummary(text) ==
  IF \E d \in SummaryDocs : d.text = text /\ d.ok
    THEN [ok |-> TRUE,
          payload |-> (CHOOSE d \in SummaryDocs : d.text = text /\ d.ok).payload]
    ELSE NoParse

\* a normalisation that forgets the upper clamp
normalizeSummaryPayload_NoUpperClamp(payload) ==
  IF payload.confidence < 0 THEN [payload EXCEPT !.confidence = 0]
  ELSE payload

\* normalizeSummaryPayload: confidence is clamped into [0, 1]
normalizeSummaryPayload(payload) ==
  IF payload.confidence < 0 THEN [payload EXCEPT !.confidence = 0]
  ELSE IF payload.confidence > 10 THEN [payload EXCEPT !.confidence = 10]
  ELSE payload

Fence == <<96, 96, 96>>

\* a recovery without the first-'{'-to-last-'}' attempt
parseSummaryJSON_NoSubstring(raw) ==
  LET t0 == TrimSpaceBytes(raw)
      t1 == SubSeq(t0, Len(Fence) + 1, Len(t0))
      idx == Index(t1, <<10>>)
      t2 == IF idx >= 0 THEN SubSeq(t1, idx + 2, Len(t1)) ELSE t1
      fence == LastIndex(t2, Fence)
      t3 == IF fence >= 0 THEN SubSeq(t2, 1, fence) ELSE t2
      trimmed == IF HasPrefix(t0, Fence) THEN TrimSpaceBytes(t3) ELSE t0
      direct == UnmarshalSummary(trimmed)
  IN IF direct.ok
       THEN [ok |-> TRUE, payload |-> normalizeSummaryPayload(direct.payload)]
       ELSE NoParse

\* parseSummaryJSON(raw)
parseSummaryJSON(raw) ==
  LET t0 == TrimSpaceBytes(raw)
      \* strings.TrimPrefix(trimmed, "```")
      t1 == SubSeq(t0, Len(Fence) + 1, Len(t0))
      idx == Index(t1, <<10>>)
      t2 == IF idx >= 0 THEN SubSeq(t1, idx + 2, Len(t1)) ELSE t1
      fence == LastIndex(t2, Fence)
      t3 == IF fence >= 0 THEN SubSeq(t2, 1, fence) ELSE t2
      trimmed == IF HasPrefix(t0, Fence) THEN TrimSpaceBytes(t3) ELSE t0
      direct == UnmarshalSummary(trimmed)
      start == Index(trimmed, <<123>>)
      end == LastIndex(trimmed, <<125>>)
      inner == UnmarshalSummary(SubSeq(trimmed, start + 1, end + 1))
  IN IF direct.ok
       THEN [ok |-> TRUE, payload |-> normalizeSummaryPayload(direct.payload)]
     ELSE IF start >= 0 /\ end > start /\ inner.ok
       THEN [ok |-> TRUE, payload |-> normalizeSummaryPayload(inner.payload)]
     ELSE NoParse

(***************************************************************************)
(* internal/llm: Summarize and its backends                                *)
(***************************************************************************)
\* redaction != "" && redaction != "none", on the trimmed, lower-cased level
RedactionActive(redactionLevel) ==
  LET redaction == ToLower(TrimSpace(redactionLevel))
  IN redaction # "" /\ redaction # "none"

\* the aggregated evidence text a call of Summarize may be handed
EvidenceTexts ==
  {<<>>,
   << [kind |-> "log", title |-> "l", artifact_ptr |-> "art:log",
       content_type |-> "text/plain", content |-> <<65>>] >>}

\* a placeholder that quotes the first evidence text
SummarizeMock_QuotesEvidence(input, redactionLevel, t) ==
  LET summary == [ZeroSummary EXCEPT !.incident_id = input.incident_id,
                                     !.model = "mock", !.confidence = 4]
      count == input.count
  IN IF RedactionActive(redactionLevel)
       THEN [summary EXCEPT
               !.summary_md = <<83, 117, 109, 109, 97, 114, 121, 32, 114,
                 101, 100, 97, 99, 116, 101, 100, 32, 98, 121, 32, 112, 111,
                 108, 105, 99, 121, 46>>,
               !.highlights =
                 IF input.evidence = <<>>
                   THEN << <<114, 101, 100, 97, 99, 116, 101, 100>> >>
                   ELSE << input.evidence[1].content >>,
               !.action_items = << <<114, 101, 113, 117, 101, 115, 116,
                 32, 97, 112, 112, 114, 111, 118, 97, 108, 32, 116, 111, 32,
                 118, 105, 101, 119, 32, 102, 117, 108, 108, 32, 100, 101,
                 116, 97, 105, 108, 115>> >>,
               !.model = "mock-redacted"]
       ELSE [summary EXCEPT
               !.summary_md =
                 <<73, 110, 99, 105, 100, 101, 110, 116, 32>> \o
                   BytesOf(input.incident_id)
                   \o <<32, 115, 117, 109, 109, 97, 114, 121, 58, 32, 99,
                     111, 108, 108, 101, 99, 116, 101, 100, 32>> \o
                     Itoa(count)
                   \o <<32, 101, 118, 105, 100, 101, 110, 99, 101, 32,
                     105, 116, 101, 109, 40, 115, 41, 32, 97, 116, 32>> \o
                     FormatRFC3339(t) \o <<46>>,
               !.highlights =
                 IF count > 0
                   THEN << Itoa(count) \o <<32, 101, 118, 105, 100, 101,
                     110, 99, 101, 32, 105, 116, 101, 109, 40, 115, 41, 32,
                     99, 111, 108, 108, 101, 99, 116, 101, 100>> >>
                   ELSE <<>>,
               !.action_items = << <<114, 101, 118, 105, 101, 119, 32,
                 101, 118, 105, 100, 101, 110, 99, 101, 32, 98, 117, 110,
                 100, 108, 101>>, <<99, 111, 110, 102, 105, 114, 109, 32,
                 110, 101, 120, 116, 32, 115, 116, 101, 112, 115>> >>]

\* SummarizeMock(input, redactionLevel), called at time t
SummarizeMock(input, redactionLevel, t) ==
  LET summary == [ZeroSummary EXCEPT !.incident_id = input.incident_id,
                                     !.model = "mock", !.confidence = 4]
      count == input.count
  IN IF RedactionActive(redactionLevel)
       THEN [summary EXCEPT
               !.summary_md = <<83, 117, 109, 109, 97, 114, 121, 32, 114,
                 101, 100, 97, 99, 116, 101, 100, 32, 98, 121, 32, 112, 111,
                 108, 105, 99, 121, 46>>,
               !.highlights = << <<114, 101, 100, 97, 99, 116, 101, 100>> >>,
               !.action_items = << <<114, 101, 113, 117, 101, 115, 116,
                 32, 97, 112, 112, 114, 111, 118, 97, 108, 32, 116, 111, 32,
                 118, 105, 101, 119, 32, 102, 117, 108, 108, 32, 100, 101,
                 116, 97, 105, 108, 115>> >>,
               !.model = "mock-redacted"]
       ELSE [summary EXCEPT
               !.summary_md =
                 <<73, 110, 99, 105, 100, 101, 110, 116, 32>> \o
                   BytesOf(input.incident_id)
                   \o <<32, 115, 117, 109, 109, 97, 114, 121, 58, 32, 99,
                     111, 108, 108, 101, 99, 116, 101, 100, 32>> \o
                     Itoa(count)
                   \o <<32, 101, 118, 105, 100, 101, 110, 99, 101, 32,
                     105, 116, 101, 109, 40, 115, 41, 32, 97, 116, 32>> \o
                     FormatRFC3339(t) \o <<46>>,
               !.highlights =
                 IF count > 0
                   THEN << Itoa(count) \o <<32, 101, 118, 105, 100, 101,
                     110, 99, 101, 32, 105, 116, 101, 109, 40, 115, 41, 32,
                     99, 111, 108, 108, 101, 99, 116, 101, 100>> >>
                   ELSE <<>>,
               !.action_items = << <<114, 101, 118, 105, 101, 119, 32,
                 101, 118, 105, 100, 101, 110, 99, 101, 32, 98, 117, 110,
                 100, 108, 101>>, <<99, 111, 110, 102, 105, 114, 109, 32,
                 110, 101, 120, 116, 32, 115, 116, 101, 112, 115>> >>]

\* SummarizeOpenAI: always an error
SummarizeOpenAI == "openai summarizer not configured"

\* SummarizeOllama up to the HTTP request: the settings are checked and the
\* request is sent, or the call returns an error
SummarizeOllamaSend(call) ==
  LET model == TrimSpace(call.settings.OllamaModel)
      baseURL == TrimRightSlash(TrimSpace(call.settings.OllamaURL))
      entered == [call EXCEPT !.dispatched = "ollama"]
  IN IF model = ""
       THEN [entered EXCEPT !.pc = "ret", !.err = "OLLAMA_MODEL is required"]
     ELSE IF baseURL = ""
       THEN [entered EXCEPT !.pc = "ret", !.err = "OLLAMA_URL is required"]
     ELSE [entered EXCEPT !.pc = "await", !.requests = @ + 1]

\* a Summarize that looks at the provider before the redaction level
SummarizeCall_ProviderFirst ==
  /\ llm.pc = "call"
  /\ LET provider == ToLower(TrimSpace(llm.settings.Provider))
         mock == [llm EXCEPT !.pc = "ret", !.dispatched = "mock",
                    !.summary = SummarizeMock(llm.input, llm.redactionLevel, now)]
     IN llm' =
          CASE provider \in {"", "mock"} -> mock
            [] provider = "openai" ->
                 [llm EXCEPT !.pc = "ret", !.dispatched = "openai",
                             !.err = SummarizeOpenAI]
            [] provider = "ollama" -> SummarizeOllamaSend(llm)
            [] OTHER ->
                 IF RedactionActive(llm.redactionLevel) THEN mock
                 ELSE [llm EXCEPT !.pc = "ret",
                                  !.err = "unsupported llm provider"]
  /\ UNCHANGED <<posterVars, sched, fn, trunc, sum, sjob>>

\* a Summarize that falls back to the mock for a provider it does not know
SummarizeCall_UnknownIsMock ==
  /\ llm.pc = "call"
  /\ LET provider == ToLower(TrimSpace(llm.settings.Provider))
         mock == [llm EXCEPT !.pc = "ret", !.dispatched = "mock",
                    !.summary = SummarizeMock(llm.input, llm.redactionLevel, now)]
     IN llm' =
          IF RedactionActive(llm.redactionLevel) THEN mock
          ELSE CASE provider = "openai" ->
                      [llm EXCEPT !.pc = "ret", !.dispatched = "openai",
                                  !.err = SummarizeOpenAI]
                 [] provider = "ollama" -> SummarizeOllamaSend(llm)
                 [] OTHER -> mock
  /\ UNCHANGED <<posterVars, sched, fn, trunc, sum, sjob>>

\* Summarize(ctx, settings, input, redactionLevel) up to its return or to
\* the HTTP request of the Ollama backend
SummarizeCall ==
  /\ llm.pc = "call"
  /\ LET provider == ToLower(TrimSpace(llm.settings.Provider))
         mock == [llm EXCEPT !.pc = "ret", !.dispatched = "mock",
                    !.summary = SummarizeMock(llm.input, llm.redactionLevel, now)]
     IN llm' =
          IF RedactionActive(llm.redactionLevel) THEN mock
          ELSE CASE provider \in {"", "mock"} -> mock
                 [] provider = "openai" ->
                      [llm EXCEPT !.pc = "ret", !.dispatched = "openai",
                                  !.err = SummarizeOpenAI]
                 [] provider = "ollama" -> SummarizeOllamaSend(llm)
                 [] OTHER ->
                      [llm EXCEPT !.pc = "ret",
                                  !.err = "unsupported llm provider"]
  /\ UNCHANGED <<posterVars, sched, fn, trunc, sum, sjob>>

\* the error SummarizeOllama returns for a round trip, "" when it has none
OllamaError(net) ==
  CASE ~net.transport -> "ollama request"
    [] ~net.decoded -> "decode response"
    [] net.status < 200 \/ net.status >= 300 ->
         IF net.error # <<>> THEN "ollama error" ELSE "ollama http"
    [] net.error # <<>> -> "ollama error"
    [] TrimSpaceBytes(net.content) = <<>> -> "ollama response empty"
    [] OTHER -> ""

\* a fallback that starts again from an empty Summary
OllamaSummary_FallbackDropsFields(call, net) ==
  LET content == TrimSpaceBytes(net.content)
      parsed == parseSummaryJSON(content)
      summary == [ZeroSummary EXCEPT
                    !.incident_id = call.input.incident_id,
                    !.model = OllamaModelName(TrimSpace(call.settings.OllamaModel))]
      filled == IF parsed.ok
                  THEN [summary EXCEPT
                          !.summary_md = parsed.payload.summary_md,
                          !.highlights = parsed.payload.highlights,
                          !.action_items = parsed.payload.action_items,
                          !.confidence = parsed.payload.confidence]
                  ELSE summary
  IN IF filled.summary_md = <<>>
       THEN [summary EXCEPT !.summary_md = content]
       ELSE filled

\* the Summary SummarizeOllama builds from a message content
OllamaSummary(call, net) ==
  LET content == TrimSpaceBytes(net.content)
      parsed == parseSummaryJSON(content)
      summary == [ZeroSummary EXCEPT
                    !.incident_id = call.input.incident_id,
                    !.model = OllamaModelName(TrimSpace(call.settings.OllamaModel))]
      filled == IF parsed.ok
                  THEN [summary EXCEPT
                          !.summary_md = parsed.payload.summary_md,
                          !.highlights = parsed.payload.highlights,
                          !.action_items = parsed.payload.action_items,
                          !.confidence = parsed.payload.confidence]
                  ELSE summary
  IN IF filled.summary_md = <<>>
       THEN [filled EXCEPT !.summary_md = content]
       ELSE filled

\* a backend that turns an unparsable reply into an error
OllamaRoundTrip_RejectsUnparsable(net) ==
  /\ llm.pc = "await"
  /\ LET parsed == parseSummaryJSON(TrimSpaceBytes(net.content))
     IN llm' =
          IF OllamaError(net) # ""
            THEN [llm EXCEPT !.pc = "ret", !.net = net, !.err = OllamaError(net)]
          ELSE IF ~parsed.ok
            THEN [llm EXCEPT !.pc = "ret", !.net = net, !.parsed = parsed,
                             !.err = "ollama response not json"]
          ELSE [llm EXCEPT !.pc = "ret", !.net = net, !.parsed = parsed,
                           !.summary = OllamaSummary(llm, net)]
  /\ UNCHANGED <<posterVars, sched, fn, trunc, sum, sjob>>

\* a backend that returns a summary whatever the status and error field say
OllamaRoundTrip_IgnoresStatus(net) ==
  /\ llm.pc = "await"
  /\ llm' =
       IF ~net.transport \/ ~net.decoded
         THEN [llm EXCEPT !.pc = "ret", !.net = net, !.err = OllamaError(net)]
         ELSE [llm EXCEPT !.pc = "ret", !.net = net,
                          !.parsed = parseSummaryJSON(TrimSpaceBytes(net.content)),
                          !.summary = OllamaSummary(llm, net)]
  /\ UNCHANGED <<posterVars, sched, fn, trunc, sum, sjob>>

\* SummarizeOllama from httpClient.Do to its return
OllamaRoundTrip(net) ==
  /\ llm.pc = "await"
  /\ sjob.cancelled # "" => ~net.transport
  /\ llm' =
       IF OllamaError(net) # ""
         THEN [llm EXCEPT !.pc = "ret", !.net = net, !.err = OllamaError(net)]
         ELSE [llm EXCEPT !.pc = "ret", !.net = net,
                          !.parsed = parseSummaryJSON(TrimSpaceBytes(net.content)),
                          !.summary = OllamaSummary(llm, net)]
  /\ UNCHANGED <<posterVars, sched, fn, trunc, sum, sjob>>

\* a caller is about to call Summarize with any settings, input and level
LLMInit ==
  /\ PosterQuiet
  /\ trunc = NoCall
  /\ fn = NoFn
  /\ sum = NoCollect
  /\ sjob = NoSJob
  /\ \E s \in [Provider : RawProviders, OllamaModel : RawOllamaModels,
               OllamaURL : RawOllamaURLs],
        i \in {j \in [incident_id : IncidentIDs, count : {0, 2},
                       evidence : EvidenceTexts] :
                  j.count = 0 => j.evidence = <<>>},
        r \in RawRedactions :
       llm = [NoLLM EXCEPT !.pc = "call", !.settings = s, !.input = i,
                           !.redactionLevel = r]

NextLLM ==
  \/ SummarizeCall
  \/ \E net \in RoundTrips : OllamaRoundTrip(net)

SpecLLM == LLMInit /\ [][NextLLM]_vars

(***************************************************************************)
(* Summarizer handler (cmd/summarizer)                                     *)
(***************************************************************************)
\* the configurations the summarizer may be started with; config.Load
\* trims LLM_PROVIDER.  The byte budget is either unset or the largest one.
SummarizerConfigs ==
  [LLMProvider : {"mock", "ollama", "claude"},
   OllamaModel : {"llama3"},
   OllamaURL : {"http://ollama:11434"},
   LLMMaxEvidenceItems : 0 .. MaxItemsBudget,
   LLMMaxEvidenceBytes : {0, MaxBytesBudget}]

\* the summarizerInput values a job may carry, with the redaction level of
\* its policy constraints.  A job whose bundle has no incident_id ends at
\* the entry check, so an empty bundle is enough for it.
SummarizeJobs ==
  {j \in [incident_id : {"", "INC-1"}, items : Bundles,
          redaction : {"", " Strict "}] :
     j.incident_id = "" =>
       /\ Len(j.items) = 1
       /\ j.items[1].artifact_ptr = "art:log"
       /\ j.redaction = ""}

\* the round trips a summarize job's Ollama request may see
JobRoundTrips ==
  {net \in RoundTrips :
     \/ net.kind = "transport_error"
     \/ net.kind = "plain" /\ net.content = <<111, 107>>
     \/ net.kind = "raw" /\ net.doc = SummaryJSON(<<83>>, <<48, 46, 53>>)}

\* what gw.GetArtifact may return to a summarize job: an error, a blank
\* document, or the text " A<U+20AC>A "
JobFetchOutcomes ==
  {f \in FetchOutcomes :
     f.err \/ f.content \in {<<32, 32>>, <<32, 65, 226, 130, 172, 65, 32>>}}

\* the worker is up and no job has been delivered
SummarizerInit ==
  /\ PosterQuiet
  /\ trunc = NoCall
  /\ fn = NoFn
  /\ sum = NoCollect
  /\ llm = NoLLM
  /\ \E c \in SummarizerConfigs :
       sjob = [NoSJob EXCEPT !.pc = "idle", !.cfg = c]

\* an invocation ends with an error (return nil, err)
SumFail(cause) ==
  sjob' = [sjob EXCEPT !.pc = "done", !.status = "error", !.cause = cause]

\* handler entry: GetContextJSON, the incident_id check, the redaction
\* level, and the call of collectEvidenceText
SumStart(job, ctxOk) ==
  /\ sjob.pc = "idle"
  /\ IF ~ctxOk
       THEN SumFail("context") /\ UNCHANGED sum
     ELSE IF job.incident_id = ""
       THEN SumFail("validation") /\ UNCHANGED sum
     ELSE /\ sjob' = [sjob EXCEPT !.pc = "collect",
                                  !.incident_id = job.incident_id,
                                  !.redaction = job.redaction]
          /\ sum' = [NoCollect EXCEPT
                       !.pc = "collect", !.bundle = job.items,
                       !.maxItems = sjob.cfg.LLMMaxEvidenceItems,
                       !.maxBytes = sjob.cfg.LLMMaxEvidenceBytes]
  /\ UNCHANGED <<posterVars, sched, fn, trunc, llm>>

\* a handler that calls Summarize without the redaction level
SumCallSummarize_DropsRedaction ==
  /\ sjob.pc = "collect"
  /\ sum.pc = "collected"
  /\ llm' = [NoLLM EXCEPT
               !.pc = "call",
               !.settings = [Provider |-> sjob.cfg.LLMProvider,
                             OllamaModel |-> sjob.cfg.OllamaModel,
                             OllamaURL |-> sjob.cfg.OllamaURL],
               !.input = [incident_id |-> sjob.incident_id,
                          count |-> Len(sum.bundle),
                          evidence |-> sum.out],
               !.redactionLevel = ""]
  /\ sjob' = [sjob EXCEPT !.pc = "summarize"]
  /\ UNCHANGED <<posterVars, sched, fn, trunc, sum>>

\* collectEvidenceText has returned: llm.Settings, llm.Input and the call
\* of llm.Summarize
SumCallSummarize ==
  /\ sjob.pc = "collect"
  /\ sum.pc = "collected"
  /\ llm' = [NoLLM EXCEPT
               !.pc = "call",
               !.settings = [Provider |-> sjob.cfg.LLMProvider,
                             OllamaModel |-> sjob.cfg.OllamaModel,
                             OllamaURL |-> sjob.cfg.OllamaURL],
               !.input = [incident_id |-> sjob.incident_id,
                          count |-> Len(sum.bundle),
                          evidence |-> sum.out],
               !.redactionLevel = sjob.redaction]
  /\ sjob' = [sjob EXCEPT !.pc = "summarize"]
  /\ UNCHANGED <<posterVars, sched, fn, trunc, sum>>

\* a handler that goes on to the result write after a failed upload
SumUpload_ErrorIgnored(upOk) ==
  /\ sjob.pc = "summarize"
  /\ llm.pc = "ret"
  /\ sjob.cancelled # "" => ~upOk
  /\ IF llm.err # ""
       THEN SumFail("summarize") /\ UNCHANGED artifacts
     ELSE IF ~upOk
       THEN /\ sjob' = [sjob EXCEPT !.pc = "put", !.summary = llm.summary]
            /\ UNCHANGED artifacts
     ELSE /\ artifacts' = Append(artifacts,
                                 [kind |-> "summary",
                                  incident_id |-> llm.summary.incident_id,
                                  mode |-> "",
                                  payload |-> "summary_md"])
          /\ sjob' = [sjob EXCEPT
                        !.pc = "put",
                        !.summary = [llm.summary EXCEPT
                                       !.artifact_ptr = Len(artifacts) + 1]]
  /\ UNCHANGED <<sched, fn, trunc, sum, llm, cfg, inv, cache, results, posted, expiries,
                 okInv, started, now>>

\* llm.Summarize has returned: its error ends the job, its summary_md is
\* uploaded with artifacts.UploadText
SumUpload(upOk) ==
  /\ sjob.pc = "summarize"
  /\ llm.pc = "ret"
  /\ sjob.cancelled # "" => ~upOk
  /\ IF llm.err # ""
       THEN SumFail("summarize") /\ UNCHANGED artifacts
     ELSE IF ~upOk
       THEN SumFail("upload") /\ UNCHANGED artifacts
     ELSE /\ artifacts' = Append(artifacts,
                                 [kind |-> "summary",
                                  incident_id |-> llm.summary.incident_id,
                                  mode |-> "",
                                  payload |-> "summary_md"])
          /\ sjob' = [sjob EXCEPT
                        !.pc = "put",
                        !.summary = [llm.summary EXCEPT
                                       !.artifact_ptr = Len(artifacts) + 1]]
  /\ UNCHANGED <<sched, fn, trunc, sum, llm, cfg, inv, cache, results, posted, expiries,
                 okInv, started, now>>

\* a handler that reports success whatever PutResultJSON returns
SumPutResult_ErrorIgnored(putOk) ==
  /\ sjob.pc = "put"
  /\ sjob.cancelled # "" => ~putOk
  /\ sjob' = [sjob EXCEPT !.pc = "done", !.status = "ok",
                          !.result = IF putOk THEN sjob.summary ELSE @]
  /\ UNCHANGED <<posterVars, sched, fn, trunc, sum, llm>>

\* mem.PutResultJSON and the SUCCEEDED JobResult
SumPutResult(putOk) ==
  /\ sjob.pc = "put"
  /\ sjob.cancelled # "" => ~putOk
  /\ IF ~putOk
       THEN SumFail("result")
       ELSE sjob' = [sjob EXCEPT !.pc = "done", !.status = "ok",
                                 !.result = sjob.summary]
  /\ UNCHANGED <<posterVars, sched, fn, trunc, sum, llm>>

NextSummarizer ==
  \/ \E job \in SummarizeJobs, ctxOk \in BOOLEAN : SumStart(job, ctxOk)
  \/ CollectSkipItem
  \/ CollectBreak
  \/ \E fetch \in JobFetchOutcomes : CollectFetch(fetch)
  \/ CollectReturn
  \/ SumCallSummarize
  \/ SummarizeCall
  \/ \E net \in JobRoundTrips : OllamaRoundTrip(net)
  \/ \E upOk \in BOOLEAN : SumUpload(upOk)
  \/ \E putOk \in BOOLEAN : SumPutResult(putOk)

SpecSummarizer == SummarizerInit /\ [][NextSummarizer]_vars

(***************************************************************************)
(* Properties of the summarize job                                         *)
(***************************************************************************)
\* neither budget of collectEvidenceText is used up
BudgetsLeft == Len(sum.out) < EffMaxItems /\ sum.total < EffMaxBytes

\* C11: a failed artifact fetch fails neither collectEvidenceText nor the
\* summarize job.  The item is skipped and the loop goes on: the loop ends
\* before the last item only when a budget is used up, every item with a
\* pointer before the loop position was fetched, and the output holds, in
\* order, exactly the items whose fetch succeeded with non-blank text.  A
\* job that fails does so at the context read, the incident_id check,
\* Summarize, the upload or the result write.
C11_FetchFailureIsSkipped ==
  /\ sum.pc \in {"collect", "collected"} =>
       /\ Len(sum.out) = Len(sum.good)
       /\ \A k \in 1 .. Len(sum.out) :
            sum.out[k].artifact_ptr = sum.bundle[sum.good[k]].artifact_ptr
       /\ \A i \in 1 .. sum.idx - 1 :
            sum.bundle[i].artifact_ptr # "" =>
              \E k \in 1 .. Len(sum.fetched) : sum.fetched[k] = i
       /\ (sum.pc = "collected" /\ sum.idx <= Len(sum.bundle)) => ~BudgetsLeft
  /\ sjob.status = "error" =>
       sjob.cause \in {"context", "validation", "summarize", "upload", "result"}
  /\ (sjob.pc = "done" /\ sjob.cause = "") => sjob.status = "ok"

\* a job succeeded although a fetch failed, and a later item is in the
\* evidence text
C11_Witness ==
  /\ sjob.pc = "done"
  /\ sjob.status = "ok"
  /\ Len(sum.failed) >= 1
  /\ \E k \in 1 .. Len(sum.good) :
       /\ sum.good[k] > sum.failed[1]
       /\ sum.out[k].content # <<>>

(***************************************************************************)
(* Properties of Summarize                                                 *)
(***************************************************************************)
\* the call has left Summarize's dispatch: it returned or awaits a reply
Dispatched == llm.pc \in {"await", "ret"}

\* the normalised redaction level and provider name of the call
LevelOf(call) == ToLower(TrimSpace(call.redactionLevel))
ProviderOf(call) == ToLower(TrimSpace(call.settings.Provider))

KnownProviders == {"mock", "openai", "ollama"}

\* C12: when the trimmed, lower-cased redaction level is neither empty nor
\* "none", Summarize returns without error the fixed placeholder summary
\* (summary_md "Summary redacted by policy.", highlights ["redacted"], one
\* action item, model "mock-redacted") whatever the provider setting, and
\* neither the Ollama nor the OpenAI backend is entered and no request sent.
C12_RedactedSummaryIsPlaceholder ==
  (Dispatched /\ LevelOf(llm) \notin {"", "none"}) =>
     /\ llm.pc = "ret"
     /\ llm.err = ""
     /\ llm.summary.summary_md = <<83, 117, 109, 109, 97, 114, 121, 32,
       114, 101, 100, 97, 99, 116, 101, 100, 32, 98, 121, 32, 112, 111, 108,
       105, 99, 121, 46>>
     /\ llm.summary.highlights = << <<114, 101, 100, 97, 99, 116, 101,
       100>> >>
     /\ Len(llm.summary.action_items) = 1
     /\ llm.summary.model = "mock-redacted"
     /\ llm.summary.incident_id = llm.input.incident_id
     /\ llm.dispatched \notin {"ollama", "openai"}
     /\ llm.requests = 0

\* a redacted call returned although the provider is unknown
C12_Witness ==
  /\ llm.pc = "ret"
  /\ llm.redactionLevel = " Strict "
  /\ llm.settings.Provider = "claude"
  /\ llm.summary.model = "mock-redacted"

\* C13 as stated: with no redaction active, an empty provider name or one
\* that is not a known provider makes Summarize return an error, and no
\* backend stands in for it.
C13_UnconfiguredOrUnknownProviderFails ==
  (Dispatched /\ LevelOf(llm) \in {"", "none"}
     /\ ProviderOf(llm) \notin KnownProviders) =>
     /\ llm.pc = "ret"
     /\ llm.err # ""
     /\ llm.summary = ZeroSummary
     /\ llm.dispatched = "none"

\* C13, amended: with no redaction active, a provider name that is neither
\* empty nor a known provider makes Summarize return an error and no backend
\* stands in for it; an empty provider name selects the mock backend, which
\* returns its summary without error.
C13_UnknownProviderFails ==
  (Dispatched /\ LevelOf(llm) \in {"", "none"}) =>
     /\ ProviderOf(llm) \notin KnownProviders \cup {""} =>
          /\ llm.pc = "ret"
          /\ llm.err = "unsupported llm provider"
          /\ llm.summary = ZeroSummary
          /\ llm.dispatched = "none"
          /\ llm.requests = 0
     /\ ProviderOf(llm) = "" =>
          /\ llm.pc = "ret"
          /\ llm.err = ""
          /\ llm.summary.model = "mock"
          /\ llm.dispatched = "mock"

\* an unredacted call with an unknown provider returned its error
C13_Witness ==
  /\ llm.pc = "ret"
  /\ llm.redactionLevel = " None "
  /\ llm.settings.Provider = "claude"
  /\ llm.err # ""

\* the payload a summary object text carries
Carried(doc) == (CHOOSE d \in SummaryDocs : d.text = doc).payload

\* the reply of a round trip the backend accepts
Accepted ==
  /\ llm.pc = "ret"
  /\ llm.requests = 1
  /\ llm.net.transport
  /\ llm.net.decoded
  /\ llm.net.status \in 200 .. 299
  /\ llm.net.error = <<>>
  /\ TrimSpaceBytes(llm.net.content) # <<>>

\* the reply's summary object was recovered with the fields it carries
RecoveredAsCarried ==
  /\ llm.parsed.ok
  /\ llm.parsed.payload.summary_md = Carried(llm.net.doc).summary_md
  /\ llm.parsed.payload.highlights = Carried(llm.net.doc).highlights
  /\ llm.parsed.payload.action_items = Carried(llm.net.doc).action_items

\* C14 as stated: a summary object J is recovered with the same summary_md,
\* highlights and action_items whether the reply is J alone, J in a fenced
\* code block, or J between leading and trailing prose of any kind.
C14_RecoveryIgnoresWrapping ==
  (Accepted /\ llm.net.kind \in Wrappings) => RecoveredAsCarried

\* C14, amended: a summary object J is recovered with the same summary_md,
\* highlights and action_items whether the reply is J alone, J in a fenced
\* code block, or J between prose that has no '{' before J and no '}'
\* after it.
C14_RecoveryIgnoresBraceFreeWrapping ==
  (Accepted /\ llm.net.kind \in Wrappings \ {"brace_before", "brace_after"})
     => RecoveredAsCarried

\* a multi-line object between prose was recovered
C14_Witness ==
  /\ Accepted
  /\ llm.net.kind = "prose"
  /\ llm.net.doc = PrettyJSON(<<80>>, <<49>>)
  /\ llm.parsed.ok
  /\ llm.parsed.payload.summary_md = <<80>>

\* C15: a non-blank reply that is not recovered as a summary object makes
\* SummarizeOllama return, without error, a Summary whose summary_md is the
\* trimmed reply and whose highlights and action_items are empty.
C15_UnparsableReplyIsVerbatimSummary ==
  (Accepted /\ llm.net.kind \in {"plain", "brace_before", "brace_after"}) =>
     /\ ~llm.parsed.ok
     /\ llm.err = ""
     /\ llm.summary.summary_md = TrimSpaceBytes(llm.net.content)
     /\ llm.summary.highlights = <<>>
     /\ llm.summary.action_items = <<>>

\* the reply " ok\n" came back as the summary "ok"
C15_Witness ==
  /\ Accepted
  /\ llm.net.content = <<32, 111, 107, 10>>
  /\ llm.err = ""
  /\ llm.summary.summary_md = <<111, 107>>

\* C16: SummarizeOllama returns a Summary only for a round trip that
\* succeeds with a 2xx status, no error field and a non-blank content; any
\* other round trip makes it return an error and the zero Summary.
C16_NoSummaryFromFailedRoundTrip ==
  (llm.pc = "ret" /\ llm.requests = 1) =>
     IF Accepted THEN llm.err = "" /\ llm.summary.summary_md # <<>>
     ELSE llm.err # "" /\ llm.summary = ZeroSummary

\* a 500 reply that carries a well-formed summary object was refused
C16_Witness ==
  /\ llm.pc = "ret"
  /\ llm.requests = 1
  /\ llm.net.status = 500
  /\ llm.net.error = <<>>
  /\ UnmarshalSummary(llm.net.content).ok
  /\ llm.err = "ollama http"
  /\ llm.summary = ZeroSummary

\* C17: every Summary that Summarize returns has a confidence within
\* [0, 1] (0 .. 10 tenths); a parsed confidence below 0 becomes 0, one above
\* 1 becomes 1 and one inside the range is kept (-1, 0.5, 2 give 0, 0.5, 1).
C17_ConfidenceWithinUnitInterval ==
  (llm.pc = "ret" /\ llm.err = "") =>
     /\ llm.summary.confidence \in 0 .. 10
     /\ (Accepted /\ llm.parsed.ok) =>
          LET c == Carried(llm.net.doc).confidence
          IN llm.summary.confidence =
               IF c < 0 THEN 0 ELSE IF c > 10 THEN 10 ELSE c
     /\ llm.dispatched = "mock" => llm.summary.confidence = 4

\* a reply carrying confidence 2 came back with confidence 1
C17_Witness ==
  /\ Accepted
  /\ llm.parsed.ok
  /\ Carried(llm.net.doc).confidence = 20
  /\ llm.summary.confidence = 10

(***************************************************************************)
(* Properties of the poster's destinations                                 *)
(***************************************************************************)
\* the invocation missed the cache and built its fresh PostResult
Resolved(w) == ~inv[w].hit /\ inv[w].result.posted_at # 0

\* the webhook target section 4.4 asks for: the job's own URL when it is
\* not blank, the process-wide default otherwise
TargetOf(job) ==
  IF TrimSpace(job.slack_webhook_url) # ""
    THEN TrimSpace(job.slack_webhook_url)
    ELSE cfg.SlackWebhookURL

\* C18: on a cache miss a destination mode that is empty or blank is
\* handled as "artifact", the mode being compared trimmed and lower-cased;
\* a mode other than "artifact" and "slack" makes the handler fail with no
\* webhook POST, no artifact upload and no cache write.
C18_ModeDefaultsAndUnknownFails ==
  \A w \in Workers :
    Resolved(w) =>
      /\ inv[w].mode = IF ModeOf(inv[w].job) = "" THEN "artifact"
                                                  ELSE ModeOf(inv[w].job)
      /\ inv[w].result.mode = inv[w].mode
      /\ inv[w].mode = "artifact" => inv[w].nWebhook = 0
      /\ inv[w].mode \notin {"artifact", "slack"} =>
           /\ inv[w].pc = "done"
           /\ inv[w].status = "error"
           /\ NoEffects(w)
      /\ inv[w].status = "ok" => inv[w].mode \in {"artifact", "slack"}

\* a job with a blank mode was posted as an artifact
C18_Witness ==
  \E w \in Workers :
    /\ Resolved(w)
    /\ inv[w].job.mode = "  "
    /\ inv[w].status = "ok"
    /\ inv[w].result.mode = "artifact"
    /\ inv[w].nUpload = 1

\* C19: in slack mode the webhook target is the job's slack_webhook_url
\* when that is not blank and the process-wide default otherwise; the host
\* policy is evaluated on that URL and the POST goes to it; when both are
\* blank the handler fails before any policy check, webhook POST, artifact
\* upload or cache write.
C19_WebhookTargetResolution ==
  \A w \in Workers :
    (Resolved(w) /\ inv[w].mode = "slack") =>
      /\ inv[w].checked \in {"", TargetOf(inv[w].job)}
      /\ inv[w].nWebhook > 0 =>
           /\ inv[w].postedTo = TargetOf(inv[w].job)
           /\ inv[w].checked = TargetOf(inv[w].job)
           /\ HostAllowed(AllowedHosts, TargetOf(inv[w].job))
      /\ inv[w].pc \in {"post", "upload", "store", "build"} =>
           inv[w].checked = TargetOf(inv[w].job)
      /\ TargetOf(inv[w].job) = "" =>
           /\ inv[w].pc = "done"
           /\ inv[w].status = "error"
           /\ inv[w].checked = ""
           /\ NoEffects(w)

\* a job whose own URL is blank was posted to the process-wide default
C19_Witness ==
  \E w \in Workers :
    /\ Resolved(w)
    /\ inv[w].result.mode = "slack"
    /\ inv[w].job.slack_webhook_url = "  "
    /\ cfg.SlackWebhookURL = "https://hooks.slack.com/T0"
    /\ inv[w].nWebhook = 1
    /\ inv[w].postedTo = "https://hooks.slack.com/T0"

\* C20: an invocation whose resolved mode is "artifact" never calls the
\* webhook sink; when it succeeds the PostResult it returns has mode
\* "artifact", no slack section, and a non-empty artifact_ptr that points
\* at the incident+summary payload uploaded for its incident.
C20_ArtifactModeNeverPosts ==
  \A w \in Workers :
    (Resolved(w) /\ inv[w].mode = "artifact") =>
      /\ inv[w].nWebhook = 0
      /\ inv[w].postedTo = ""
      /\ (inv[w].pc = "done" /\ inv[w].status = "ok") =>
           LET r == inv[w].result
           IN /\ r.mode = "artifact"
              /\ r.slack = NoSlack
              /\ "slack" \notin DOMAIN MarshalPostResult(r)
              /\ r.artifact_ptr \in 1 .. Len(artifacts)
              /\ artifacts[r.artifact_ptr].payload = "incident+summary"
              /\ artifacts[r.artifact_ptr].incident_id = inv[w].job.incident_id
              /\ inv[w].nUpload = 1

\* an artifact-mode job succeeded
C20_Witness ==
  \E w \in Workers :
    /\ Resolved(w)
    /\ inv[w].job.mode = "artifact"
    /\ inv[w].pc = "done"
    /\ inv[w].status = "ok"
    /\ inv[w].result.artifact_ptr # 0

(***************************************************************************)
(* Either worker: the poster process or the summarizer process             *)
(***************************************************************************)
\* the process is a poster (no summarize job exists) or a summarizer
WorkersInit == PosterInit \/ SummarizerInit

NextWorkers ==
  \/ sjob.pc = "none" /\ Next
  \/ NextSummarizer

SpecWorkers == WorkersInit /\ [][NextWorkers]_vars

\* C21: within one invocation no external call is repeated:
\* collectEvidenceText fetches each evidence item at most once (the fetched
\* positions strictly increase), a summarize job sends at most one backend
\* request, and one invocation of the post handler makes at most one
\* webhook POST, one artifact upload and one cache write.
C21_NoCallIsRetried ==
  /\ \A k \in 1 .. Len(sum.fetched) - 1 : sum.fetched[k] < sum.fetched[k + 1]
  /\ \A k \in 1 .. Len(sum.fetched) : sum.fetched[k] \in 1 .. Len(sum.bundle)
  /\ llm.requests <= 1
  /\ \A w \in Workers :
       /\ inv[w].nWebhook <= 1
       /\ inv[w].nUpload <= 1
       /\ inv[w].nCacheSet <= 1

\* a collection went past a failed fetch and a blank document to a third
\* item, each fetched once
C21_Witness ==
  /\ sum.pc = "collected"
  /\ Len(sum.fetched) = 3
  /\ Len(sum.failed) >= 1
  /\ Len(sum.out) >= 1

(***************************************************************************)
(* Cancellation of a job's context                                         *)
(***************************************************************************)
\* the network call a poster invocation has in flight, "" when it has none
PosterCall(w) ==
  CASE inv[w].pc = "lookup" -> "cache read"
    [] inv[w].pc = "post" -> "webhook"
    [] inv[w].pc = "upload" -> "upload"
    [] inv[w].pc = "store" -> "cache write"
    [] inv[w].pc = "build" -> "result write"
    [] OTHER -> ""

\* ctx is cancelled, or its deadline expires, during a call of the poster
CancelJob(w) ==
  /\ inv[w].cancelled = ""
  /\ PosterCall(w) # ""
  /\ inv' = [inv EXCEPT ![w].cancelled = PosterCall(w)]
  /\ UNCHANGED <<nonPosterVars, cfg, cache, artifacts, results, posted,
                 expiries, okInv, started, now>>

\* the network call the summarize job has in flight, "" when it has none
SummarizerCall ==
  CASE sjob.pc = "collect" /\ InLoop /\ sum.bundle[sum.idx].artifact_ptr # ""
         /\ BudgetsLeft -> "fetch"
    [] sjob.pc = "summarize" /\ llm.pc = "await" -> "backend"
    [] sjob.pc = "summarize" /\ llm.pc = "ret" /\ llm.err = "" -> "upload"
    [] sjob.pc = "put" -> "result write"
    [] OTHER -> ""

\* ctx is cancelled, or its deadline expires, during a call of the job
SumCancel ==
  /\ sjob.cancelled = ""
  /\ SummarizerCall # ""
  /\ sjob' = [sjob EXCEPT !.cancelled = SummarizerCall]
  /\ UNCHANGED <<posterVars, sched, fn, trunc, sum, llm>>

NextCancel ==
  \/ sjob.pc = "none" /\ NextSeq
  \/ sjob.pc = "none" /\ \E w \in Workers : CancelJob(w)
  \/ NextSummarizer
  \/ SumCancel

SpecCancel == WorkersInit /\ [][NextCancel]_vars

\* C22: a job whose context is cancelled, or whose deadline expires, while
\* one of its network calls is in flight ends with an error and never
\* reports JOB_STATUS_SUCCEEDED, also when the call was an evidence fetch
\* of the summarize job.
C22_CancelledJobFails ==
  /\ \A w \in Workers :
       (inv[w].cancelled # "" /\ inv[w].pc = "done") => inv[w].status = "error"
  /\ (sjob.cancelled # "" /\ sjob.pc = "done") => sjob.status = "error"

\* a summarize job was cancelled during an evidence fetch, went on to
\* Summarize and ended with an error at the upload
C22_Witness ==
  /\ sjob.cancelled = "fetch"
  /\ sjob.pc = "done"
  /\ sjob.status = "error"
  /\ sjob.cause = "upload"
  /\ Len(sum.failed) >= 1

\* C23: incident_id propagates unchanged: the Summary returned by Summarize
\* carries the bundle's incident_id on the mock, redacted and Ollama paths,
\* so does the result of the summarize job, and every PostResult the post
\* handler returns, fresh or cached, carries the incident_id of the job's
\* IncidentInput.
C23_IncidentIdPropagates ==
  /\ (llm.pc = "ret" /\ llm.err = "") =>
        llm.summary.incident_id = llm.input.incident_id
  /\ (sjob.pc = "done" /\ sjob.status = "ok") =>
        sjob.result.incident_id = sjob.incident_id
  /\ \A w \in Workers :
       (inv[w].pc = "done" /\ inv[w].status = "ok") =>
          /\ inv[w].result.incident_id = inv[w].job.incident_id
          /\ results[inv[w].job.incident_id].incident_id = inv[w].job.incident_id

\* a job whose id carries blanks was answered from the cache with that id
C23_Witness ==
  \E w \in Workers :
    /\ inv[w].pc = "done"
    /\ inv[w].status = "ok"
    /\ inv[w].hit
    /\ inv[w].job.incident_id = " INC-1 "
    /\ inv[w].result.incident_id = " INC-1 "
    /\ inv[w].result = UnmarshalPostResult(cache[cacheKey(" INC-1 ")])

\* C24: validation precedes every effect: a post job whose incident_id is
\* missing or blank fails before any cache lookup, webhook POST, artifact
\* upload, cache write or result write, and a summarize job whose bundle
\* incident_id is empty fails before any artifact fetch, backend call or
\* artifact upload.
C24_ValidationPrecedesEffects ==
  /\ \A w \in Workers :
       (inv[w].pc # "idle" /\ TrimSpace(inv[w].job.incident_id) = "") =>
          /\ inv[w].pc = "done"
          /\ inv[w].status = "error"
          /\ inv[w].nGet = 0
          /\ NoEffects(w)
          /\ inv[w].nPtr = 0
  /\ (sjob.pc \notin {"none", "idle"} /\ sjob.incident_id = "") =>
          /\ sjob.pc = "done"
          /\ sjob.status = "error"
          /\ sum = NoCollect
          /\ llm = NoLLM
          /\ artifacts = <<>>
  /\ \A w \in Workers : inv[w].nGet <= 1

\* a post job with a blank id failed although its context was readable,
\* after an earlier job had left an entry in the cache
C24_Witness ==
  \E w \in Workers :
    /\ inv[w].pc = "done"
    /\ inv[w].job.incident_id = "  "
    /\ inv[w].status = "error"
    /\ DOMAIN cache # {}

\* C25: on a cache miss in slack mode the handler's steps occur in the
\* order host-allow check, webhook POST, audit-artifact upload, cache
\* write, result-pointer write, and each step is executed only if every
\* earlier one succeeded: a failed POST leaves no audit artifact and no
\* cache entry, a failed upload leaves no cache entry.
C25_SlackStepsInOrder ==
  \A w \in Workers :
    (~inv[w].hit /\ inv[w].mode = "slack") =>
       /\ inv[w].nWebhook > 0 =>
            /\ inv[w].checked = inv[w].webhook
            /\ HostAllowed(AllowedHosts, inv[w].webhook)
            /\ inv[w].postedTo = inv[w].checked
       /\ inv[w].nUpload > 0 =>
            /\ inv[w].nWebhook = 1
            /\ inv[w].result.slack.ok
       /\ inv[w].nCacheSet > 0 =>
            /\ inv[w].nUpload = 1
            /\ inv[w].result.artifact_ptr \in 1 .. Len(artifacts)
            /\ artifacts[inv[w].result.artifact_ptr].mode = "slack"
       /\ inv[w].nPtr > 0 =>
            /\ inv[w].nCacheSet = 1
            /\ inv[w].stored
       /\ inv[w].status = "ok" => inv[w].nPtr = 1

\* a slack job that missed the cache posted, then failed at the upload and
\* left no cache entry
C25_Witness ==
  \E w \in Workers :
    /\ ~inv[w].hit
    /\ inv[w].result.mode = "slack"
    /\ inv[w].pc = "done"
    /\ inv[w].status = "error"
    /\ inv[w].result.slack.ok
    /\ inv[w].nUpload = 1
    /\ inv[w].result.artifact_ptr = 0
    /\ inv[w].nCacheSet = 0
    /\ cacheKey(inv[w].job.incident_id) \notin DOMAIN cache

\* C26 as stated: in a summarize job with an active redaction level the
\* redaction check comes before any network call of the job: no evidence
\* artifact is fetched and no backend request is sent.
C26_RedactionBeforeAnyNetworkCall ==
  RedactionActive(sjob.redaction) =>
     /\ sum.fetched = <<>>
     /\ llm.requests = 0

\* C26: in a summarize job with an active redaction level no backend
\* request is sent, since Summarize tests the level before it dispatches;
\* the evidence artifacts are fetched by collectEvidenceText before
\* Summarize is called, as in a job without redaction, and only then is the
\* placeholder summary produced.
C26_RedactionBeforeAnyBackendCall ==
  /\ llm.pc # "none" =>
       /\ sum.pc = "collected"
       /\ llm.redactionLevel = sjob.redaction
       /\ \A i \in 1 .. sum.idx - 1 :
            sum.bundle[i].artifact_ptr # "" =>
              \E k \in 1 .. Len(sum.fetched) : sum.fetched[k] = i
  /\ RedactionActive(sjob.redaction) =>
       /\ llm.requests = 0
       /\ llm.dispatched \notin {"ollama", "openai"}
       /\ llm.pc = "ret" => /\ llm.err = ""
                            /\ llm.summary.model = "mock-redacted"

\* a job under redaction, configured for Ollama, fetched evidence and then
\* returned the placeholder without sending a request
C26_Witness ==
  /\ RedactionActive(sjob.redaction)
  /\ sjob.cfg.LLMProvider = "ollama"
  /\ Len(sum.fetched) >= 2
  /\ Len(sum.out) >= 1
  /\ llm.pc = "ret"
  /\ llm.summary.model = "mock-redacted"
  /\ llm.requests = 0

\* C27: with an active redaction level the Summary returned by Summarize
\* depends only on the bundle's incident_id: it equals what any other call
\* with the same incident_id returns, whatever that call's evidence items,
\* aggregated evidence text, provider settings, active level and time, so
\* no evidence content reaches the output.
C27_RedactedSummaryDependsOnIdOnly ==
  (llm.pc = "ret" /\ RedactionActive(llm.redactionLevel)) =>
     /\ llm.err = ""
     /\ \A count \in {0, 2}, evidence \in EvidenceTexts, t \in 0 .. 1 :
          \A r \in {l \in RawRedactions : RedactionActive(l)} :
            llm.summary =
              SummarizeMock([incident_id |-> llm.input.incident_id,
                             count |-> count, evidence |-> evidence], r, t)

\* a redacted call that was handed evidence and an Ollama configuration
C27_Witness ==
  /\ llm.pc = "ret"
  /\ RedactionActive(llm.redactionLevel)
  /\ llm.input.evidence # <<>>
  /\ llm.input.count = 2
  /\ llm.settings.Provider = "ollama"
  /\ llm.settings.OllamaURL # ""
  /\ llm.summary.model = "mock-redacted"
  /\ llm.summary.highlights = << <<114, 101, 100, 97, 99, 116, 101, 100>> >>

\* C28: in every reachable state, an entry of the idempotency cache for an
\* incident_id names an artifact that an upload for that incident stored
\* earlier, and if the entry's mode is "slack" a webhook POST for that
\* incident succeeded earlier: the cache never records a post that did not
\* happen.
C28_CacheRecordsOnlyDonePosts ==
  /\ DOMAIN cache \subseteq {cacheKey(id) : id \in IncidentIDs}
  /\ \A id \in IncidentIDs :
       cacheKey(id) \in DOMAIN cache =>
         LET entry == UnmarshalPostResult(cache[cacheKey(id)])
         IN /\ entry.incident_id = id
            /\ entry.mode \in {"slack", "artifact"}
            /\ entry.artifact_ptr \in 1 .. Len(artifacts)
            /\ artifacts[entry.artifact_ptr].kind = "post_payload"
            /\ artifacts[entry.artifact_ptr].incident_id = id
            /\ artifacts[entry.artifact_ptr].mode = entry.mode
            /\ entry.mode = "slack" => entry.slack.ok /\ posted[id] >= 1
            /\ entry.mode = "artifact" => entry.slack = NoSlack

\* the cache holds a slack entry and an artifact entry, each naming its own
\* artifact
C28_Witness ==
  /\ cacheKey("INC-1") \in DOMAIN cache
  /\ cacheKey(" INC-1 ") \in DOMAIN cache
  /\ UnmarshalPostResult(cache[cacheKey("INC-1")]).mode = "slack"
  /\ UnmarshalPostResult(cache[cacheKey(" INC-1 ")]).mode = "artifact"
  /\ posted["INC-1"] = 1
  /\ posted[" INC-1 "] = 0
  /\ Len(artifacts) = 2

\* C29: a cache hit takes precedence over the current request: an
\* invocation that finds an entry for its incident_id returns the cached
\* PostResult without resolving its own mode, webhook or host policy, and
\* fails only if the result write fails; an invocation that starts while an
\* artifact-mode entry exists never posts to the webhook.
C29_CacheHitBeforeRequest ==
  \A w \in Workers :
    /\ inv[w].hit =>
         /\ inv[w].mode = ""
         /\ inv[w].webhook = ""
         /\ inv[w].checked = ""
         /\ inv[w].nGet = 1
         /\ inv[w].result = UnmarshalPostResult(inv[w].hitData)
         /\ inv[w].status = "error" => inv[w].pc = "done" /\ inv[w].nPtr = 1
         /\ inv[w].pc = "done" => inv[w].nPtr = 1
    /\ (inv[w].pred /\ inv[w].predResult.mode = "artifact") =>
         /\ inv[w].nWebhook = 0
         /\ inv[w].nUpload = 0
         /\ inv[w].nCacheSet = 0
         /\ inv[w].pc \in {"lookup", "build", "done"}
         /\ inv[w].status = "ok" =>
              /\ inv[w].hit
              /\ inv[w].result.mode = "artifact"
              /\ inv[w].result.slack = NoSlack

\* a slack job for a host the policy disallows was answered with the
\* cached result of an earlier artifact-mode post
C29_Witness ==
  \E w \in Workers :
    /\ inv[w].hit
    /\ inv[w].pc = "done"
    /\ inv[w].status = "ok"
    /\ inv[w].result.mode = "artifact"
    /\ inv[w].result.slack = NoSlack
    /\ ModeOf(inv[w].job) = "slack"
    /\ ~HostAllowed(AllowedHosts, TrimSpace(inv[w].job.slack_webhook_url))
    /\ posted[inv[w].job.incident_id] = 0

\* C30 as stated: every EvidenceText emitted by collectEvidenceText has
\* non-empty content.
C30_EmittedContentNonEmpty ==
  \A k \in 1 .. Len(sum.out) : sum.out[k].content # <<>>

\* C30: every EvidenceText emitted by collectEvidenceText comes from an
\* item whose extracted text was non-empty after trimming, an item whose
\* text is empty is skipped, and skipping it does not stop the loop, which
\* ends early only on a spent budget.  The emitted content is that text cut
\* to the budget left, and is empty exactly when fewer bytes were left than
\* the text's first character takes.
C30_EmittedTextWasNonEmpty ==
  sum.pc \in {"collect", "collected"} =>
    /\ Len(sum.out) = Len(sum.good)
    /\ \A k \in 1 .. Len(sum.out) :
         /\ sum.out[k].artifact_ptr = sum.bundle[sum.good[k]].artifact_ptr
         /\ sum.out[k].content = <<>> =>
              EffMaxBytes - ContentBytes(SubSeq(sum.out, 1, k - 1)) \in 1 .. 2
    /\ (sum.pc = "collected" /\ sum.idx <= Len(sum.bundle)) =>
         (Len(sum.out) >= EffMaxItems \/ sum.total >= EffMaxBytes)

\* an item with blank text was skipped and a later item was emitted with
\* empty content, its first character not fitting the budget left
C30_Witness ==
  /\ sum.pc = "collected"
  /\ Len(sum.fetched) = 3
  /\ Len(sum.out) = 2
  /\ sum.out[1].content # <<>>
  /\ sum.out[2].content = <<>>
  /\ sum.good = <<1, 3>>
  /\ sum.failed = <<>>

\* the number of items emitted before the loop reached bundle item i
EmittedBefore(i) == Cardinality({g \in 1 .. Len(sum.good) : sum.good[g] < i})

\* C31: collectEvidenceText fetches an artifact only for a bundle item with
\* a non-empty artifact reference and only while both budgets are
\* unexhausted: at every fetch fewer than max_items items had been emitted
\* and fewer than max_bytes bytes collected; an item without a reference is
\* never fetched and adds nothing to the output.
C31_FetchOnlyWithPointerAndBudget ==
  sum.pc \in {"collect", "collected"} =>
    /\ \A k \in 1 .. Len(sum.fetched) :
         LET i == sum.fetched[k]
             n == EmittedBefore(i)
         IN /\ sum.bundle[i].artifact_ptr # ""
            /\ n < EffMaxItems
            /\ n <= Len(sum.out)
            /\ ContentBytes(SubSeq(sum.out, 1, n)) < EffMaxBytes
    /\ \A k \in 1 .. Len(sum.good) :
         \E f \in 1 .. Len(sum.fetched) : sum.fetched[f] = sum.good[k]
    /\ sum.total = ContentBytes(sum.out)
    /\ (Len(sum.out) >= EffMaxItems \/ sum.total >= EffMaxBytes) =>
         \A k \in 1 .. Len(sum.fetched) :
           sum.fetched[k] <= sum.good[Len(sum.good)]

\* the item budget was reached and the loop stopped at a later item that
\* has a reference, after passing over an item without one
C31_Witness ==
  /\ sum.pc = "collected"
  /\ Len(sum.bundle) = 3
  /\ sum.bundle[1].artifact_ptr = ""
  /\ sum.bundle[2].artifact_ptr # ""
  /\ sum.bundle[3].artifact_ptr # ""
  /\ sum.maxItems = 1
  /\ Len(sum.out) = 1
  /\ sum.fetched = <<2>>
  /\ sum.idx = 3

(***************************************************************************)
(* Properties of extractEvidenceText                                       *)
(***************************************************************************)
\* the trimmed, non-blank string a document of this shape holds at
\* raw.message, else at incident.raw.message, else at message
FirstMessage(shape) ==
  IF shape.raw = "text" THEN <<82>>
  ELSE IF shape.incident = "text" THEN <<73>>
  ELSE IF shape.message = "text" THEN <<77>>
  ELSE <<>>

\* the content type says JSON, or the trimmed content begins with '{'
LooksLikeJSON(content, contentType) ==
  \/ contentType \in {"application/json", "Application/JSON",
                      "application/problem+json"}
  \/ LET trimmed == TrimSpaceBytes(content)
     IN trimmed # <<>> /\ trimmed[1] = 123

\* C32: for content that is JSON-typed or begins with '{' and parses as a
\* JSON object, extractEvidenceText returns the first non-blank string
\* found at raw.message, then incident.raw.message, then message, with its
\* surrounding white space removed; in every other case (no such field,
\* field not a string, parse failure, non-JSON content) it returns the
\* whole trimmed text.
C32_ExtractPrefersMessagePaths ==
  (fn.pc = "ret" /\ fn.name = "extractEvidenceText") =>
    LET doc == fn.args.doc
        found == FirstMessage(doc.shape)
    IN fn.out =
         IF /\ LooksLikeJSON(doc.content, fn.args.contentType)
            /\ doc.ok
            /\ found # <<>>
           THEN found
           ELSE TrimSpaceBytes(doc.content)

\* a document without a JSON content type holds a string at all three
\* paths, and the one at raw.message is returned
C32_Witness ==
  /\ fn.pc = "ret"
  /\ fn.name = "extractEvidenceText"
  /\ fn.args.contentType = "text/plain"
  /\ fn.args.doc.ok
  /\ fn.args.doc.shape = [raw |-> "text", incident |-> "text",
                          message |-> "text"]
  /\ fn.args.doc.content[1] = 32
  /\ fn.out = <<82>>

(***************************************************************************)
(* The two truncations                                                     *)
(***************************************************************************)
\* C33: the truncation of the Evidence Aggregator and the truncation of the
\* Summary Normalizer are the same function: for every string and every
\* budget, truncateToBytes of the summarizer worker and truncateToBytes of
\* the llm package return the same result.
C33_TruncationsAgree ==
  (fn.pc = "ret" /\ fn.name = "truncateToBytes") =>
     fn.out.summarizer = fn.out.llm

\* both truncations were handed a text whose cut falls inside a character
\* and both returned the text before that character
C33_Witness ==
  /\ fn.pc = "ret"
  /\ fn.name = "truncateToBytes"
  /\ fn.args.maxBytes > 0
  /\ Len(fn.args.value) > fn.args.maxBytes
  /\ ValidString(fn.args.value)
  /\ Len(fn.out.llm) < fn.args.maxBytes
  /\ Len(fn.out.llm) > 0
  /\ fn.out.summarizer = fn.out.llm

\* C34: in the summarize job the steps occur in the order evidence
\* aggregation, summarization, upload of summary_md as an audit artifact,
\* result-pointer write; the persisted Summary's artifact_ptr is the pointer
\* that upload returned, and if summarization or the upload fails no result
\* is written and the job reports an error.
C34_SummarizeJobOrder ==
  /\ llm.pc # "none" => sum.pc = "collected"
  /\ artifacts # <<>> =>
       /\ llm.pc = "ret"
       /\ llm.err = ""
       /\ Len(artifacts) = 1
       /\ artifacts[1].kind = "summary"
       /\ artifacts[1].payload = "summary_md"
       /\ artifacts[1].incident_id = sjob.incident_id
  /\ sjob.pc = "put" =>
       /\ artifacts # <<>>
       /\ sjob.summary = [llm.summary EXCEPT !.artifact_ptr = Len(artifacts)]
  /\ sjob.status = "ok" =>
       /\ sjob.pc = "done"
       /\ sjob.result = [llm.summary EXCEPT !.artifact_ptr = 1]
       /\ artifacts # <<>>
  /\ sjob.status # "ok" => sjob.result = ZeroSummary
  /\ sjob.cause = "summarize" =>
       /\ sjob.status = "error"
       /\ artifacts = <<>>
       /\ llm.err # ""
  /\ sjob.cause = "upload" =>
       /\ sjob.status = "error"
       /\ artifacts = <<>>
       /\ llm.err = ""

\* a job whose Ollama summary was uploaded and persisted with the pointer
\* of the upload, after evidence had been collected
C34_Witness ==
  /\ sjob.pc = "done"
  /\ sjob.status = "ok"
  /\ Len(sum.out) >= 1
  /\ llm.dispatched = "ollama"
  /\ llm.requests = 1
  /\ sjob.result.artifact_ptr = 1
  /\ sjob.result.model # "mock"
  /\ sjob.result.summary_md # <<>>

(***************************************************************************)
(* config.parseDataTTL.  An int and a time.Duration are 64-bit integers,   *)
(* held here as five digits in base 2^15, least significant first, so that *)
(* time.Duration(v) * time.Second wraps as it does in the program.         *)
(***************************************************************************)
LimbBase == 32768

\* the top digit holds bits 60 to 74; a 64-bit value uses four bits of it
TopBits == 16

ZeroLimbs == <<0, 0, 0, 0, 0>>

\* x * c + a on the digits, for small c and a; bits above 2^75 are dropped
RECURSIVE MulAddFrom(_, _, _, _)
MulAddFrom(x, c, carry, i) ==
  IF i > Len(x) THEN <<>>
  ELSE LET t == x[i] * c + carry
       IN <<t % LimbBase>> \o MulAddFrom(x, c, t \div LimbBase, i + 1)

MulAdd(x, c, a) == MulAddFrom(x, c, a, 1)

\* the low 64 bits of the digits
Wrap64(x) == [x EXCEPT ![5] = @ % TopBits]

\* the 64-bit value is zero, negative (bit 63 set) or positive
IsZero64(x) == Wrap64(x) = ZeroLimbs
IsNegative64(x) == x[5] % TopBits >= TopBits \div 2
IsPositive64(x) == ~IsZero64(x) /\ ~IsNegative64(x)

\* -x in 64 bits
Neg64(x) ==
  Wrap64(MulAdd([i \in 1 .. 5 |->
                   (IF i = 5 THEN TopBits ELSE LimbBase) - 1 - Wrap64(x)[i]],
                1, 1))

IsDigit(c) == c >= 48 /\ c <= 57

\* the value of a string of decimal digits
RECURSIVE DecimalValue(_, _)
DecimalValue(digits, acc) ==
  IF digits = <<>> THEN acc
  ELSE DecimalValue(Tail(digits), MulAdd(acc, 10, Head(digits) - 48))

\* strconv.Atoi(s): an optional sign and decimal digits, within an int
Atoi(s) ==
  LET signed == s # <<>> /\ s[1] \in {43, 45}
      digits == IF signed THEN Tail(s) ELSE s
      value == DecimalValue(digits, ZeroLimbs)
      negative == signed /\ s[1] = 45
      inRange == \/ value[5] < TopBits \div 2
                 \/ negative /\ value = <<0, 0, 0, 0, TopBits \div 2>>
  IN IF digits = <<>> \/ (\E i \in 1 .. Len(digits) : ~IsDigit(digits[i]))
          \/ ~inRange
       THEN [ok |-> FALSE, v |-> ZeroLimbs]
       ELSE [ok |-> TRUE, v |-> IF negative THEN Neg64(value) ELSE value]

\* time.Second, time.Minute and time.Hour as factors of a time.Duration
Seconds(v) == Wrap64(MulAdd(MulAdd(MulAdd(v, 1000, 0), 1000, 0), 1000, 0))

SmallInt(n) == MulAdd(ZeroLimbs, 0, n)

\* time.ParseDuration on the values REDIS_DATA_TTL is given here
ParseDuration(raw) ==
  CASE raw = <<57, 48, 115>> -> [ok |-> TRUE, d |-> Seconds(SmallInt(90))]
    [] raw = <<49, 104>> -> [ok |-> TRUE, d |-> Seconds(SmallInt(3600))]
    [] raw = <<49, 110, 115>> -> [ok |-> TRUE, d |-> SmallInt(1)]
    [] raw = <<48, 115>> -> [ok |-> TRUE, d |-> ZeroLimbs]
    [] raw = <<45, 53, 109>> -> [ok |-> TRUE, d |->
      Neg64(Seconds(SmallInt(300)))]
    [] OTHER -> [ok |-> FALSE, d |-> ZeroLimbs]

\* defaultDataTTL = 24 * time.Hour
defaultDataTTL == Seconds(MulAdd(SmallInt(3600), 24, 0))

\* what REDIS_DATA_TTL_SECONDS may be set to
RawTTLSeconds ==
  {<<>>, <<32>>, <<54, 48>>, <<32, 54, 48, 32>>, <<48>>, <<45, 53>>, <<43,
    55>>, <<97, 98, 99>>,
   <<49, 46, 53>>, <<57, 50, 50, 51, 51, 55, 50, 48, 51, 54>>, <<57, 50,
     50, 51, 51, 55, 50, 48, 51, 55>>, <<49, 56, 52, 52, 54, 55, 52, 52, 48,
     55, 52>>,
   <<51, 54, 48, 50, 56, 55, 57, 55, 48, 49, 56, 57, 54, 51, 57, 54, 56>>,
     <<57, 50, 50, 51, 51, 55, 50, 48, 51, 54, 56, 53, 52, 55, 55, 53, 56,
     48, 55>>,
   <<57, 50, 50, 51, 51, 55, 50, 48, 51, 54, 56, 53, 52, 55, 55, 53, 56,
     48, 56>>, <<57, 57, 57, 57, 57, 57, 57, 57, 57, 57, 57, 57, 57, 57, 57,
     57, 57, 57, 57, 57>>}

\* what REDIS_DATA_TTL may be set to
RawTTLs ==
  {<<>>, <<57, 48, 115>>, <<32, 49, 104, 32>>, <<49, 110, 115>>, <<48,
    115>>, <<45, 53, 109>>, <<97, 98, 99>>,
   <<54, 48>>}

\* parseDataTTL(), with the two environment variables as arguments
parseDataTTL(seconds, ttl) ==
  LET raw1 == TrimSpaceBytes(seconds)
      v == Atoi(raw1)
      raw2 == TrimSpaceBytes(ttl)
      d == ParseDuration(raw2)
  IN IF raw1 # <<>> /\ v.ok /\ IsPositive64(v.v)
       THEN Seconds(v.v)
     ELSE IF raw2 # <<>> /\ d.ok /\ IsPositive64(d.d)
       THEN d.d
     ELSE defaultDataTTL

\* config.Load reads the environment and calls parseDataTTL
DataTTLInit ==
  /\ PosterQuiet
  /\ trunc = NoCall
  /\ sum = NoCollect
  /\ llm = NoLLM
  /\ sjob = NoSJob
  /\ \E seconds \in RawTTLSeconds, ttl \in RawTTLs :
       fn = [NoFn EXCEPT !.pc = "call", !.name = "parseDataTTL",
                         !.args = [REDIS_DATA_TTL_SECONDS |-> seconds,
                                   REDIS_DATA_TTL |-> ttl]]

\* the call returns cfg.DataTTL
ParseDataTTLCall ==
  /\ fn.pc = "call"
  /\ fn.name = "parseDataTTL"
  /\ fn' = [fn EXCEPT !.pc = "ret",
                      !.out = parseDataTTL(fn.args.REDIS_DATA_TTL_SECONDS,
                                           fn.args.REDIS_DATA_TTL)]
  /\ UNCHANGED <<posterVars, sched, trunc, sum, llm, sjob>>

NextDataTTL == ParseDataTTLCall

SpecDataTTL == DataTTLInit /\ [][NextDataTTL]_vars

\* C35: the configured data TTL, which is the expiry of every idempotency
\* cache entry, is greater than zero for every setting of
\* REDIS_DATA_TTL_SECONDS and REDIS_DATA_TTL.
C35_DataTTLPositive ==
  fn.name = "parseDataTTL" /\ fn.pc = "ret" => IsPositive64(fn.out)

\* C36: every Summary that SummarizeOllama returns without error has a
\* non-empty summary_md; a reply whose summary object carries no summary_md
\* gives the whole trimmed reply as summary_md and keeps the object's
\* highlights, action_items and clamped confidence; a reply that does not
\* parse gives empty highlights and action_items and confidence 0.
C36_SummaryMarkdownNeverEmpty ==
  Accepted =>
    /\ llm.err = ""
    /\ llm.summary.summary_md # <<>>
    /\ (/\ llm.net.kind \in Wrappings \ {"brace_before", "brace_after"}
        /\ Carried(llm.net.doc).summary_md = <<>>) =>
          LET c == Carried(llm.net.doc).confidence
          IN /\ llm.summary.summary_md = TrimSpaceBytes(llm.net.content)
             /\ llm.summary.highlights = Carried(llm.net.doc).highlights
             /\ llm.summary.action_items = Carried(llm.net.doc).action_items
             /\ llm.summary.confidence =
                  (IF c < 0 THEN 0 ELSE IF c > 10 THEN 10 ELSE c)
    /\ llm.net.kind \in {"plain", "brace_before", "brace_after"} =>
          /\ llm.summary.highlights = <<>>
          /\ llm.summary.action_items = <<>>
          /\ llm.summary.confidence = 0

\* a fenced object without summary_md and with confidence 2 came back as a
\* Summary holding the whole reply, the object's lists and confidence 1
C36_Witness ==
  /\ Accepted
  /\ llm.net.kind = "fenced_json"
  /\ llm.net.doc = SummaryJSON(<<>>, <<50>>)
  /\ llm.summary.summary_md = TrimSpaceBytes(llm.net.content)
  /\ llm.summary.highlights = << <<104>> >>
  /\ llm.summary.action_items = << <<97>> >>
  /\ llm.summary.confidence = 10

(***************************************************************************)
(* The scheduler retries one post job, one invocation after the other      *)
(***************************************************************************)
\* the collaborator calls of the handler that may fail
FaultPoints ==
  {"context", "cache_get", "webhook", "upload", "cache_set", "result"}

\* which call fails in each of the first invocations, if any; from
\* invocation MaxInvocations + 1 on the collaborators have stopped failing
FaultPlans == [1 .. MaxInvocations -> FaultPoints \cup {"none"}]

\* the call that fails in invocation k
FaultAt(k) == IF k \in DOMAIN sched.plan THEN sched.plan[k] ELSE "none"

\* the scheduler holds one job, with a host policy that parses or does not
RetryInit ==
  /\ cfg \in [SlackWebhookURL : DefaultWebhooks]
  /\ PosterStores
  /\ trunc = NoCall
  /\ fn = NoFn
  /\ sum = NoCollect
  /\ llm = NoLLM
  /\ sjob = NoSJob
  /\ \E job \in Jobs, policyOk \in BOOLEAN, plan \in FaultPlans :
       sched = [pc |-> "retrying", job |-> job, policyOk |-> policyOk,
                plan |-> plan]

\* the next delivery of the job, once the one before has returned: handler
\* entry with GetContextJSON and the incident_id check.  Invocations and
\* the clock are counted up to the first invocation without faults.
RetryJob(w) ==
  /\ sched.pc = "retrying"
  /\ \A v \in Workers : ~Active(v)
  /\ started' = IF started <= MaxInvocations THEN started + 1 ELSE started
  /\ now' = IF started <= MaxInvocations THEN now + 1 ELSE now
  /\ LET job == sched.job
         ctxOk == FaultAt(started') # "context"
         fresh == [Idle EXCEPT !.job = job]
     IN IF ~ctxOk \/ TrimSpace(job.incident_id) = ""
          THEN inv' = [inv EXCEPT ![w] = [fresh EXCEPT !.pc = "done",
                                                       !.status = "error"]]
          ELSE inv' = [inv EXCEPT ![w] =
                         [fresh EXCEPT
                            !.pc = "lookup",
                            !.pred = okInv[job.incident_id].set,
                            !.predResult = okInv[job.incident_id].result,
                            !.predWebhook = okInv[job.incident_id].nWebhook]]
  /\ UNCHANGED <<nonPosterVars, cfg, cache, artifacts, results, posted,
                 expiries, okInv>>

\* the handler's steps, failing where the plan says so
RetrySteps ==
  \/ \E w \in Workers : RetryJob(w)
  \/ \E w \in Workers : getCachedPost(w, FaultAt(started) # "cache_get")
  \/ \E w \in Workers : ResolveMode(w)
  \/ \E w \in Workers : CheckHostPolicy(w, sched.policyOk)
  \/ \E w \in Workers : PostWebhook(w, FaultAt(started) # "webhook")
  \/ \E w \in Workers : UploadArtifact(w, FaultAt(started) # "upload")
  \/ \E w \in Workers : storeCachedPost(w, FaultAt(started) # "cache_set")
  \/ \E w \in Workers : buildResult(w, FaultAt(started) # "result")
  \/ \E w \in Workers : ReturnJob(w)

NextRetry ==
  \/ RetrySteps
  \/ \E id \in IncidentIDs : ExpireEntry(id)

\* the handler runs to its end and the scheduler goes on delivering the job
SpecRetry == RetryInit /\ [][NextRetry]_vars /\ WF_vars(RetrySteps)

\* the retried job passes the handler's checks: a non-blank incident_id, a
\* mode of artifact (the default) or slack, and in slack mode a webhook,
\* the job's own or the configured one, that a parsable host policy allows
RetriedJobValid ==
  LET job == sched.job
      m0 == ToLower(TrimSpace(job.mode))
      mode == IF m0 = "" THEN "artifact" ELSE m0
      w0 == TrimSpace(job.slack_webhook_url)
      webhook == IF w0 = "" THEN cfg.SlackWebhookURL ELSE w0
  IN /\ TrimSpace(job.incident_id) # ""
     /\ \/ mode = "artifact"
        \/ /\ mode = "slack"
           /\ webhook # ""
           /\ sched.policyOk
           /\ HostAllowed(AllowedHosts, webhook)

\* an invocation returns success
Succeeded == \E w \in Workers : inv[w].pc = "done" /\ inv[w].status = "ok"

\* an invocation that began after a success, with the cache entry still
\* there, makes no POST and no upload, and returns the PostResult of that
\* success whenever its own collaborators do not fail
RepeatsResult ==
  \A w \in Workers :
    (inv[w].pc = "done" /\ inv[w].pred /\ ~inv[w].stale) =>
       /\ inv[w].nWebhook = 0
       /\ inv[w].nUpload = 0
       /\ inv[w].status = "ok" =>
            inv[w].hit /\ inv[w].result = inv[w].predResult
       /\ FaultAt(started) = "none" => inv[w].status = "ok"

\* C37 as stated: when the scheduler keeps retrying a post job, one
\* invocation after the other, and the collaborators eventually stop
\* failing, some invocation eventually returns success, and from then until
\* the cache entry expires every further invocation returns that same
\* PostResult without a new webhook POST or artifact upload.
C37_RetriedJobSucceeds == <>Succeeded /\ []RepeatsResult

\* C37, amended: the same for a retried job that passes the handler's
\* checks; a job with a blank incident_id, an unsupported mode, or in slack
\* mode no webhook or one the host policy refuses, fails on every retry.
C37_ValidRetriedJobSucceeds ==
  (RetriedJobValid => <>Succeeded) /\ []RepeatsResult

\* the first invocation POSTed and then failed to upload, a later one
\* succeeded, and an invocation after that returned the cached PostResult
C37_Witness ==
  \E w \in Workers :
    /\ sched.pc = "retrying"
    /\ sched.plan[1] = "upload"
    /\ inv[w].pc = "done"
    /\ inv[w].status = "ok"
    /\ inv[w].pred
    /\ ~inv[w].stale
    /\ inv[w].hit
    /\ inv[w].result.mode = "slack"
    /\ inv[w].nWebhook = 0
    /\ posted[inv[w].job.incident_id] = 2

=============================================================================
